---- MODULE Spec2Model ----
(***************************************************************************)
(* A model of the DRS review tool (kafle1/drs): the tracking client's      *)
(* orchestrator, upload component and review form, the nearest-timestamp   *)
(* searches of the two trajectory views, the run-out screen's frame        *)
(* stepping, the offline worker and the database bootstrap script.         *)
(* Each component has its own specification over the shared variables.     *)
(***************************************************************************)
EXTENDS Integers, Sequences, FiniteSets, TLC

VARIABLES
  \* ---- App orchestrator (src/unnamed/part_005) ----
  uploadedVideo,     \* useState(null): 0 is null, else the video id
  trajectoryData,    \* useState(null): 0 is null, else the id of the video whose trajectory is held
  tracking,          \* useState(false): the in-progress flag
  error,             \* useState(null): "" is null, else the message
  processingStatus,  \* useState('')
  pc,                \* per video: where its handleVideoUploaded / pollForTrajectory run stands
  attempts,          \* per video: the attempts argument of the live pollForTrajectory call
  last,              \* per video: the last HTTP outcome delivered to its run
  \* ---- VideoUpload (src/frontend/src/components/VideoUpload.js, src/unnamed/part_003) ----
  upVariant,         \* which of the two components is mounted
  uploading,         \* useState(false)
  progress,          \* useState(0)
  upError,           \* useState(null) of the enhanced variant: "" is null
  upAlert,           \* the alert() raised by the latest handler run of the conservative variant
  inputFile,         \* the file held by the <input type="file"> (event.target.files[0])
  upPending,         \* the file of the POST /videos/upload in flight, or NoFile
  upPosts,           \* POST /videos/upload requests sent so far
  upHanded,          \* onVideoUploaded calls so far
  \* ---- ReviewInterface (src/unnamed/part_003) ----
  decisions,         \* useState([]): the pending decision list
  notes,             \* useState('')
  currentDecision,   \* useState({type: '', outcome: '', timestamp: 0, confidence: 0.5})
  revPosts,          \* POST /reviews requests sent so far
  revInFlight,       \* POST /reviews requests not yet answered
  revCompleted,      \* onReviewComplete calls so far
  revAlert,          \* the alert() raised by the latest answer
  revSent,           \* history: the present decisions and notes went out in a POST that is pending or succeeded
  \* ---- the two trajectory views (src/frontend/src/components/TrajectoryViewer.js) ----
  traj,              \* the trajectoryData prop: point count, and the timestamps array when present
  now,               \* the currentTime both views read, in tenths of a second
  ballShown,         \* the sample the 3-D ball marker was last placed on, and for which time
  overlayShown,      \* the sample the 2-D overlay last drew, and for which time
  \* ---- the run-out screen (src/src/components/Runout.jsx) ----
  strictDev,         \* whether React.StrictMode runs every effect twice (a development build)
  runInstance,       \* the mounted Runout instance, 0 while another route is shown
  runMounts,         \* Runout instances mounted so far
  listeners,         \* the keydown listeners on window: the instance each belongs to
  source,            \* useState(): whether a file has been chosen
  duration,          \* the video's duration in units of 1/90 s, -1 while it is NaN
  videoTime,         \* the video's currentTime in units of 1/90 s
  keyFault,          \* whether the latest key press made a listener read a missing video element
  \* ---- the offline worker (src/sw.js) ----
  swState,           \* "none", "installing" or "active"
  prefetch,          \* cache.addAll of the manifest: "idle", "running", "done" or "failed"
  cache,             \* the URLs stored in the cache named by cacheData
  fetchLog,          \* the fetch events handled so far: url, hit, outcome
  \* ---- the database (src/frontend/webpack.config.js, lines 337-484) ----
  schema,            \* the extensions, types, tables, indexes, functions and triggers
  users,             \* rows of users: id, username, email
  videos,            \* rows of videos: id, uploaded_by
  reviews,           \* rows of reviews: id, video_id, assigned_to, created_by
  trajectories,      \* rows of trajectories: id, review_id
  review_events,     \* rows of review_events: id, review_id, user_id
  scriptPc,          \* the statement of the script about to run, 0 while no run is under way
  scriptRuns,        \* runs of the script started so far
  scriptError,       \* whether the latest run stopped on an error
  leftByRun,         \* the schema and users rows left by the latest completed run
  touched,           \* whether a row changed since the latest completed run
  lastOp,            \* the latest row statement accepted, and how many rows its cascade removed
  \* ---- the operator CLI (src/frontend/webpack.config.js, lines 35-335) ----
  cliPc,             \* "idle", "checkDocker", "checkCompose", "dispatch", "confirm", "file" or "exited"
  cliArg,            \* the first argument of the invocation
  dockerUp,          \* whether docker info succeeds
  composeInstalled,  \* whether command -v docker-compose succeeds
  cliCmds,           \* the docker-compose commands the invocation has run
  cliOut,            \* the labels and texts the invocation has printed
  cliReply,          \* what read returned at the clean prompt, "none" before it
  cliExit,           \* the exit status, -1 while the script runs
  \* ---- the HTTP clients (src/unnamed/part_002, and bare axios at the call sites) ----
  token,             \* localStorage's 'token' entry, NoToken when there is none
  httpLog,           \* the requests sent, each with the headers it carried
  \* ---- VideoPlayerWithTracking (src/frontend/src/components/TrajectoryViewer.js, lines 645-1048) ----
  playbackRate,      \* useState(1), in hundredths: 100 is 1x
  elementRate,       \* the video element's playbackRate, in hundredths
  showControls,      \* useState(false): the pointer is over the player
  isLoading,         \* useState(true)
  isPlaying,         \* useState(false)
  speedPresses,      \* how many times the speed control has been pressed
  \* ---- the player's overlay effect (src/frontend/src/components/TrajectoryViewer.js, lines 656-792) ----
  ovTraj,            \* the trajectoryData prop: null, an object without points, or its number of points
  videoNow,          \* the video element's currentTime, in tenths of a second
  ovCurrentTime,     \* useState(0): the currentTime of the latest render, which the effect's closures hold
  ovReported,        \* the time of the latest onTimeUpdate call, -1 before the first
  ovDrawn,           \* the latest drawTracking: the time it searched for and the samples it read
  \* ---- TrajectoryViewer, rich and simple (TrajectoryViewer.js lines 390-643, setupProxy.js lines 74-109) ----
  vwVariant,         \* which of the two components rendered last
  vwData,            \* the trajectoryData prop of that render
  vwTime,            \* the currentTime prop of that render, in tenths of a second
  vwOut              \* what the render returned, and the indexes of points it read

appVars == <<uploadedVideo, trajectoryData, tracking, error, processingStatus,
             pc, attempts, last>>
upVars == <<upVariant, uploading, progress, upError, upAlert, inputFile,
            upPending, upPosts, upHanded>>

revVars == <<decisions, notes, currentDecision, revPosts, revInFlight,
             revCompleted, revAlert, revSent>>

viewVars == <<traj, now, ballShown, overlayShown>>

runVars == <<strictDev, runInstance, runMounts, listeners, source, duration,
             videoTime, keyFault>>

swVars == <<swState, prefetch, cache, fetchLog>>

rowVars == <<users, videos, reviews, trajectories, review_events, lastOp>>

scriptVars == <<schema, scriptPc, scriptRuns, scriptError, leftByRun, touched>>

dbVars == <<rowVars, scriptVars>>

cliVars == <<cliPc, cliArg, dockerUp, composeInstalled, cliCmds, cliOut, cliReply, cliExit>>

httpVars == <<token, httpLog>>

playerVars == <<playbackRate, elementRate, showControls, isLoading, isPlaying, speedPresses>>

overlayVars == <<ovTraj, videoNow, ovCurrentTime, ovReported, ovDrawn>>

viewerVars == <<vwVariant, vwData, vwTime, vwOut>>

vars == <<appVars, upVars, revVars, viewVars, runVars, swVars, dbVars, cliVars, httpVars, playerVars, overlayVars, viewerVars>>

\* what a step of one component leaves alone
NotApp == <<upVars, revVars, viewVars, runVars, swVars, dbVars, cliVars, httpVars, playerVars, overlayVars, viewerVars>>
NotUp == <<appVars, revVars, viewVars, runVars, swVars, dbVars, cliVars, httpVars, playerVars, overlayVars, viewerVars>>
NotRev == <<appVars, upVars, viewVars, runVars, swVars, dbVars, cliVars, httpVars, playerVars, overlayVars, viewerVars>>
NotView == <<appVars, upVars, revVars, runVars, swVars, dbVars, cliVars, httpVars, playerVars, overlayVars, viewerVars>>
NotRun == <<appVars, upVars, revVars, viewVars, swVars, dbVars, cliVars, httpVars, playerVars, overlayVars, viewerVars>>
NotSw == <<appVars, upVars, revVars, viewVars, runVars, dbVars, cliVars, httpVars, playerVars, overlayVars, viewerVars>>
NotDb == <<appVars, upVars, revVars, viewVars, runVars, swVars, cliVars, httpVars, playerVars, overlayVars, viewerVars>>
NotCli == <<appVars, upVars, revVars, viewVars, runVars, swVars, dbVars, httpVars, playerVars, overlayVars, viewerVars>>
NotHttp == <<appVars, upVars, revVars, viewVars, runVars, swVars, dbVars, cliVars, playerVars, overlayVars, viewerVars>>
NotPlayer == <<appVars, upVars, revVars, viewVars, runVars, swVars, dbVars, cliVars, httpVars, overlayVars, viewerVars>>
NotOverlay == <<appVars, upVars, revVars, viewVars, runVars, swVars, dbVars, cliVars, httpVars, playerVars, viewerVars>>
NotViewer == <<appVars, upVars, revVars, viewVars, runVars, swVars, dbVars, cliVars, httpVars, playerVars, overlayVars>>

(***************************************************************************)
(* Bounds                                                                  *)
(***************************************************************************)
MaxVideos == 2
MaxUploads == 2
MaxDecisions == 2
MaxPosts == 2
MaxPoints == 2
MaxTime == 2
MaxMounts == 2
MaxDuration == 9
MaxFetches == 3
MaxRuns == 2
MaxRows == 1
MaxRequests == 2
MaxPresses == 8
MaxSamples == 22

VideoIds == 1..MaxVideos

(***************************************************************************)
(* App orchestrator                                                        *)
(***************************************************************************)
maxAttempts_more == 30 + 1

\* const maxAttempts = 30
maxAttempts == 30

\* HTTP statuses axios resolves (2xx) and rejects (others)
OkStatuses == {200, 202}
ErrStatuses == {404, 500}

\* bodies of the track response: status field and ball_detected field
\* ("undefined" when absent); "null" is a body that is not an object
TrackBodies == [status : {"processed", "processing"},
                ball_detected : {"undefined", "true", "false"}]

\* trackData.status === 'processed' || trackData.ball_detected !== undefined
Complete(body) == body.status = "processed" \/ body.ball_detected # "undefined"

NoOutcome == [kind |-> "none", status |-> 0, complete |-> FALSE]

MsgTrackFailed == "Tracking failed. Please try again."
MsgFetchFailed == "Failed to fetch trajectory data. Please try again."
MsgTimeout == "Processing timeout. Please refresh and try again."
MsgRetrieveFailed == "Failed to retrieve trajectory data."
MsgServerDetail == "server detail"

InitApp ==
  /\ uploadedVideo = 0
  /\ trajectoryData = 0
  /\ tracking = FALSE
  /\ error = ""
  /\ processingStatus = ""
  /\ pc = [v \in VideoIds |-> "none"]
  /\ attempts = [v \in VideoIds |-> 0]
  /\ last = [v \in VideoIds |-> NoOutcome]

\* handleVideoUploaded up to its first await: the state resets and POST /videos/{id}/track.
\* The server gives every upload a new id, so records arrive in id order.
HandleVideoUploaded(v) ==
  /\ pc[v] = "none"
  /\ \A u \in VideoIds : u < v => pc[u] # "none"
  /\ uploadedVideo' = v
  /\ trajectoryData' = 0
  /\ error' = ""
  /\ tracking' = TRUE
  /\ processingStatus' = "Starting ball tracking analysis..."
  /\ pc' = [pc EXCEPT ![v] = "trackWait"]
  /\ UNCHANGED <<attempts, last>>
  /\ UNCHANGED NotApp

\* pollForTrajectory(videoId, n) up to its await: the cap check, then the GET
PollForTrajectory(v, n) ==
  IF n >= maxAttempts
  THEN /\ error' = MsgTimeout
       /\ tracking' = FALSE
       /\ processingStatus' = ""
       /\ pc' = [pc EXCEPT ![v] = "end"]
       /\ attempts' = [attempts EXCEPT ![v] = 0]
  ELSE /\ pc' = [pc EXCEPT ![v] = "pollWait"]
       /\ attempts' = [attempts EXCEPT ![v] = n]
       /\ UNCHANGED <<error, tracking>>

\* the track POST resolves (a 2xx status) with an object body
TrackResolved(v, status, body) ==
  /\ pc[v] = "trackWait"
  /\ last' = [last EXCEPT ![v] = [kind |-> "track", status |-> status,
                                  complete |-> Complete(body)]]
  /\ IF status = 200
     THEN IF Complete(body)
          THEN /\ processingStatus' = "Fetching trajectory data..."
               /\ pc' = [pc EXCEPT ![v] = "fetchWait"]
               /\ UNCHANGED <<error, tracking, attempts>>
          ELSE \* setProcessingStatus, then pollForTrajectory(videoData.id) runs to its await
               /\ PollForTrajectory(v, 0)
               /\ processingStatus' = "Processing video... This may take a minute."
     ELSE /\ pc' = [pc EXCEPT ![v] = "end"]
          /\ UNCHANGED <<error, tracking, processingStatus, attempts>>
  /\ UNCHANGED <<uploadedVideo, trajectoryData>>
  /\ UNCHANGED NotApp

\* the track POST resolves with status 200 and a null body: reading
\* trackData.status throws, and the outer catch runs with no error.response
TrackResolvedNull(v) ==
  /\ pc[v] = "trackWait"
  /\ last' = [last EXCEPT ![v] = [kind |-> "trackNull", status |-> 200, complete |-> FALSE]]
  /\ error' = MsgTrackFailed
  /\ tracking' = FALSE
  /\ processingStatus' = ""
  /\ pc' = [pc EXCEPT ![v] = "end"]
  /\ UNCHANGED <<uploadedVideo, trajectoryData, attempts>>
  /\ UNCHANGED NotApp

\* the track POST rejects; detail is error.response?.data?.detail ("" when absent)
TrackRejected(v, status, detail) ==
  /\ pc[v] = "trackWait"
  /\ last' = [last EXCEPT ![v] = [kind |-> "track", status |-> status, complete |-> FALSE]]
  /\ error' = IF detail # "" THEN detail ELSE MsgTrackFailed
  /\ tracking' = FALSE
  /\ processingStatus' = ""
  /\ pc' = [pc EXCEPT ![v] = "end"]
  /\ UNCHANGED <<uploadedVideo, trajectoryData, attempts>>
  /\ UNCHANGED NotApp

\* the immediate trajectory GET of handleVideoUploaded resolves
FetchResolved(v, status) ==
  /\ pc[v] = "fetchWait"
  /\ last' = [last EXCEPT ![v] = [kind |-> "fetch", status |-> status, complete |-> FALSE]]
  /\ IF status = 200
     THEN /\ trajectoryData' = v
          /\ processingStatus' = ""
     ELSE UNCHANGED <<trajectoryData, processingStatus>>
  /\ tracking' = FALSE
  /\ pc' = [pc EXCEPT ![v] = "end"]
  /\ UNCHANGED <<uploadedVideo, error, attempts>>
  /\ UNCHANGED NotApp

\* the immediate trajectory GET rejects: the inner catch
FetchRejected(v, status) ==
  /\ pc[v] = "fetchWait"
  /\ last' = [last EXCEPT ![v] = [kind |-> "fetch", status |-> status, complete |-> FALSE]]
  /\ error' = MsgFetchFailed
  /\ tracking' = FALSE
  /\ pc' = [pc EXCEPT ![v] = "end"]
  /\ UNCHANGED <<uploadedVideo, trajectoryData, processingStatus, attempts>>
  /\ UNCHANGED NotApp

\* a GET of the poll loop resolves
PollResolved(v, status) ==
  /\ pc[v] = "pollWait"
  /\ last' = [last EXCEPT ![v] = [kind |-> "poll", status |-> status, complete |-> FALSE]]
  /\ IF status = 200
     THEN /\ trajectoryData' = v
          /\ tracking' = FALSE
          /\ processingStatus' = ""
     ELSE UNCHANGED <<trajectoryData, tracking, processingStatus>>
  /\ pc' = [pc EXCEPT ![v] = "end"]
  /\ attempts' = [attempts EXCEPT ![v] = 0]
  /\ UNCHANGED <<uploadedVideo, error>>
  /\ UNCHANGED NotApp

\* a variant of the catch branch's test in which no status means "not ready yet"
KeepPollingNever(status) == FALSE

\* the catch branch's test: error.response?.status === 404
KeepPolling(status) == status = 404

\* a GET of the poll loop rejects: 404 arms the 1000 ms timer, anything else is an error
PollRejected(v, status) ==
  /\ pc[v] = "pollWait"
  /\ last' = [last EXCEPT ![v] = [kind |-> "poll", status |-> status, complete |-> FALSE]]
  /\ IF KeepPolling(status)
     THEN /\ pc' = [pc EXCEPT ![v] = "timerWait"]
          /\ UNCHANGED <<error, tracking, processingStatus, attempts>>
     ELSE /\ error' = MsgRetrieveFailed
          /\ tracking' = FALSE
          /\ processingStatus' = ""
          /\ pc' = [pc EXCEPT ![v] = "end"]
          /\ attempts' = [attempts EXCEPT ![v] = 0]
  /\ UNCHANGED <<uploadedVideo, trajectoryData>>
  /\ UNCHANGED NotApp

\* the timer fires: pollForTrajectory(videoId, attempts + 1)
TimerFires(v) ==
  /\ pc[v] = "timerWait"
  /\ PollForTrajectory(v, attempts[v] + 1)
  /\ IF attempts[v] + 1 >= maxAttempts
     THEN TRUE
     ELSE UNCHANGED processingStatus
  /\ UNCHANGED <<uploadedVideo, trajectoryData, last>>
  /\ UNCHANGED NotApp

\* the error Alert's onClose
DismissError ==
  /\ error # ""
  /\ error' = ""
  /\ UNCHANGED <<uploadedVideo, trajectoryData, tracking, processingStatus, pc, attempts, last>>
  /\ UNCHANGED NotApp

\* the render's two panels, shown once a video is held: the 2-D panel shows the
\* player when !tracking && uploadedVideo and its "Processing video..."
\* placeholder otherwise; the 3-D panel shows the viewer when
\* !tracking && trajectoryData and its "Generating 3D visualization..."
\* placeholder otherwise
Placeholder2D == uploadedVideo # 0 /\ ~(~tracking /\ uploadedVideo # 0)
Placeholder3D == uploadedVideo # 0 /\ ~(~tracking /\ trajectoryData # 0)

NextApp ==
  \/ \E v \in VideoIds : HandleVideoUploaded(v)
  \/ \E v \in VideoIds, s \in OkStatuses, b \in TrackBodies : TrackResolved(v, s, b)
  \/ \E v \in VideoIds : TrackResolvedNull(v)
  \/ \E v \in VideoIds, s \in ErrStatuses, d \in {"", MsgServerDetail} : TrackRejected(v, s, d)
  \/ \E v \in VideoIds, s \in OkStatuses : FetchResolved(v, s)
  \/ \E v \in VideoIds, s \in ErrStatuses : FetchRejected(v, s)
  \/ \E v \in VideoIds, s \in OkStatuses : PollResolved(v, s)
  \/ \E v \in VideoIds, s \in ErrStatuses : PollRejected(v, s)
  \/ \E v \in VideoIds : TimerFires(v)
  \/ DismissError

(***************************************************************************)
(* Claims about the orchestrator                                           *)
(***************************************************************************)
\* a step in which the poll loop of video v sends a GET /videos/{v}/trajectory
PollGetSent(v) == pc[v] # "pollWait" /\ pc'[v] = "pollWait"

\* C1: one run of the poll loop sends its GETs numbered 0, 1, 2, ... with every
\* number below 30, so at most 30 of them; the first follows the track response,
\* every later one is sent by the timer armed by a 404; after a 200 response the
\* run has ended and sends nothing; and when the timer fires after the 30th 404
\* the timeout error is set and the in-progress flag cleared without a GET.
C1_PollLoopBounded ==
  [][\A v \in VideoIds :
       /\ PollGetSent(v) =>
            /\ attempts'[v] < 30
            /\ \/ pc[v] = "trackWait" /\ attempts'[v] = 0
               \/ /\ pc[v] = "timerWait"
                  /\ last[v].kind = "poll" /\ last[v].status = 404
                  /\ attempts'[v] = attempts[v] + 1
       /\ (last[v].kind = "poll" /\ last[v].status = 200) =>
            pc[v] = "end" /\ pc'[v] = "end"
       /\ (pc[v] = "timerWait" /\ attempts[v] = 29 /\ pc'[v] # "timerWait") =>
            /\ pc'[v] = "end"
            /\ error' = MsgTimeout
            /\ tracking' = FALSE
    ]_vars

\* C1 witness: a poll loop has ended by its timeout, after 30 GETs answered 404
C1_Witness ==
  \E v \in VideoIds :
    /\ pc[v] = "end"
    /\ last[v].kind = "poll" /\ last[v].status = 404
    /\ error = MsgTimeout
    /\ ~tracking

\* C16: while the poll loop of a video has made fewer than 30 attempts, a 404
\* answer to its GET leaves the error, the in-progress flag, the status line, the
\* held video and the trajectory as they were; it only arms the timer of the next
\* attempt, which is numbered one higher.
C16_NotFoundKeepsPolling ==
  [][\A v \in VideoIds :
       /\ (attempts[v] < 30 /\ PollRejected(v, 404)) =>
            /\ error' = error
            /\ tracking' = tracking
            /\ processingStatus' = processingStatus
            /\ uploadedVideo' = uploadedVideo
            /\ trajectoryData' = trajectoryData
            /\ pc' = [pc EXCEPT ![v] = "timerWait"]
       /\ (pc[v] = "timerWait" /\ attempts[v] + 1 < 30 /\ TimerFires(v)) =>
            /\ pc'[v] = "pollWait"
            /\ attempts'[v] = attempts[v] + 1
            /\ error' = error
            /\ tracking' = tracking
    ]_vars

\* C16 witness: a poll loop below the cap waits on its timer after a 404, with
\* analysis still in progress and no error shown
C16_Witness ==
  \E v \in VideoIds :
    /\ pc[v] = "timerWait"
    /\ attempts[v] >= 1 /\ attempts[v] < 29
    /\ last[v].kind = "poll" /\ last[v].status = 404
    /\ uploadedVideo = v
    /\ tracking
    /\ error = ""

\* a request of video v has just been answered by a rejection that ends its run
RequestFailed(v) ==
  \/ \E st \in ErrStatuses, d \in {"", MsgServerDetail} : TrackRejected(v, st, d)
  \/ \E st \in ErrStatuses : FetchRejected(v, st)
  \/ \E st \in ErrStatuses : ~KeepPolling(st) /\ PollRejected(v, st)

\* the first half of C18: a failed track or trajectory request leaves the held
\* video as it was, clears the in-progress flag and records an error
C18_FailureKeepsVideo ==
  [][\A v \in VideoIds :
       RequestFailed(v) =>
         /\ uploadedVideo' = uploadedVideo
         /\ uploadedVideo' # 0
         /\ ~tracking'
         /\ error' # ""
    ]_vars

\* a step of the orchestrator that sends the track POST or a trajectory GET of a
\* video whose run has ended: the failed step run again without a new upload
RetryStep(v) ==
  /\ pc[v] = "end"
  /\ NextApp
  /\ pc'[v] \in {"trackWait", "fetchWait", "pollWait"}

\* the orchestrator holds video v, whose last request failed, and nothing is in flight
FailedAndHeld(v) ==
  /\ uploadedVideo = v
  /\ pc[v] = "end"
  /\ last[v].status \in ErrStatuses
  /\ ~(last[v].kind = "poll" /\ KeepPolling(last[v].status))

\* C18 (as claimed): after a failed track or trajectory request the orchestrator
\* still holds the video with the in-progress flag cleared and an error recorded,
\* and from that state the failed step can be run again for the same video
\* without a new upload.
C18_FailedStepRetryable ==
  /\ C18_FailureKeepsVideo
  /\ [](\A v \in VideoIds : FailedAndHeld(v) => ENABLED RetryStep(v))

\* C27 (as claimed): held trajectory data is the trajectory of the currently
\* uploaded video; a response or timer of an earlier video's run, arriving after
\* a newer video was handed over, changes neither the trajectory, nor the error,
\* nor the in-progress flag; and at most one poll loop is pending at any time.
C27_NoStaleResponse ==
  /\ [](trajectoryData # 0 => trajectoryData = uploadedVideo)
  /\ [](Cardinality({v \in VideoIds : pc[v] \in {"pollWait", "timerWait"}}) <= 1)
  /\ [][\A v \in VideoIds :
          (v # uploadedVideo /\ pc[v] # "none" /\ pc'[v] # pc[v]) =>
            /\ trajectoryData' = trajectoryData
            /\ error' = error
            /\ tracking' = tracking
       ]_vars

\* C29 (as claimed): each of the two panels shows its processing placeholder
\* only while the in-progress flag is true.
C29_PlaceholderOnlyWhileTracking ==
  /\ Placeholder2D => tracking
  /\ Placeholder3D => tracking

\* the 2-D panel's half of C29, which holds
Placeholder2DOnlyWhileTracking == Placeholder2D => tracking

\* C2 (as claimed): once a video has been handed over and every request has been
\* answered and every timer has fired, the in-progress flag is false.
C2_TrackingCleared ==
  (uploadedVideo # 0 /\ \A v \in VideoIds : pc[v] \in {"none", "end"}) => ~tracking

\* C3 (as claimed): the track POST precedes every trajectory GET of the video; a
\* resolved track response that indicates completion is followed by the single
\* immediate GET and never by the poll loop; any other resolved track response
\* starts the poll loop and no immediate GET.
C3_TrackThenFetchOrPoll ==
  \A v \in VideoIds :
    /\ pc[v] \in {"fetchWait", "pollWait", "timerWait"} => last[v].kind \in {"track", "poll"}
    /\ (last[v].kind = "track" /\ last[v].status \in OkStatuses /\ last[v].complete) =>
         pc[v] = "fetchWait"
    /\ (last[v].kind = "track" /\ last[v].status \in OkStatuses /\ ~last[v].complete) =>
         pc[v] = "pollWait" /\ attempts[v] = 0
    /\ last[v].kind = "fetch" => pc[v] = "end"
    /\ last[v].kind = "poll" => pc[v] \in {"pollWait", "timerWait", "end"}

(***************************************************************************)
(* VideoUpload: the conservative and the enhanced variant                  *)
(***************************************************************************)
\* file names are sequences of characters
Str_mp4 == <<"m", "p", "4">>
Str_mov == <<"m", "o", "v">>
Str_avi == <<"a", "v", "i">>
Str_mkv == <<"m", "k", "v">>
Str_webm == <<"w", "e", "b", "m">>

\* the alternatives of /\.(mp4|mov|avi)$/i
RegexFormats == {Str_mp4, Str_mov, Str_avi}

\* const ALLOWED_FORMATS = ['mp4', 'mov', 'avi', 'mkv', 'webm']
ALLOWED_FORMATS == {Str_mp4, Str_mov, Str_avi, Str_mkv, Str_webm}

\* MAX_UPLOAD_SIZE_MB = parseInt(process.env.REACT_APP_MAX_UPLOAD_SIZE_MB || '500')
MAX_UPLOAD_SIZE_MB == 500

\* 500 * 1024 * 1024 and MAX_UPLOAD_SIZE_MB * 1024 * 1024
MaxSizeBytes == MAX_UPLOAD_SIZE_MB * 1024 * 1024

FileNames ==
  { <<"a", ".", "m", "p", "4">>,
    <<"a", ".", "M", "P", "4">>,
    <<"a", ".", "m", "o", "v">>,
    <<"a", ".", "A", "v", "i">>,
    <<"a", ".", "m", "k", "v">>,
    <<"a", ".", "w", "e", "b", "m">>,
    <<"a", ".", "t", "x", "t">>,
    <<"a", ".", "m", "p", "4", ".", "t", "x", "t">>,
    <<"a", ".", "b", ".", "m", "o", "v">>,
    <<"a", "m", "p", "4">>,
    <<"m", "p", "4">>,
    <<"W", "E", "B", "M">>,
    <<".", "a", "v", "i">>,
    <<"a", ".">> }

FileSizes == {1, MaxSizeBytes, MaxSizeBytes + 1, 600 * 1024 * 1024}

Files == [name : FileNames, size : FileSizes]
NoFile == [name |-> <<>>, size |-> 0]

\* String.prototype.toLowerCase, one character
LowerChar(c) ==
  CASE c = "A" -> "a" [] c = "B" -> "b" [] c = "E" -> "e" [] c = "I" -> "i"
    [] c = "K" -> "k" [] c = "M" -> "m" [] c = "O" -> "o" [] c = "P" -> "p"
    [] c = "T" -> "t" [] c = "V" -> "v" [] c = "W" -> "w" [] c = "X" -> "x"
    [] OTHER -> c

ToLowerCase(str) == [i \in 1..Len(str) |-> LowerChar(str[i])]

\* file.name.match(/\.(mp4|mov|avi)$/i): a dot, one alternative, the end of the name
MatchesRegex(name) ==
  \E e \in RegexFormats :
    /\ Len(name) >= Len(e) + 1
    /\ name[Len(name) - Len(e)] = "."
    /\ \A i \in 1..Len(e) : LowerChar(name[Len(name) - Len(e) + i]) = e[i]

\* file.name.split('.').pop(): what follows the last dot, the whole name when there is none
SplitPop(name) ==
  LET dots == {i \in 1..Len(name) : name[i] = "."}
      lastDot == IF dots = {} THEN 0 ELSE CHOOSE i \in dots : \A j \in dots : j <= i
  IN SubSeq(name, lastDot + 1, Len(name))

\* ALLOWED_FORMATS.includes(file.name.split('.').pop().toLowerCase())
IncludesExt(name) == ToLowerCase(SplitPop(name)) \in ALLOWED_FORMATS

\* the type check of each variant
TypeOk(variant, name) ==
  IF variant = "conservative" THEN MatchesRegex(name) ELSE IncludesExt(name)

\* file.size > 500 * 1024 * 1024, file.size > maxSize
TooLarge(size) == size > MaxSizeBytes

AlertBadType == "Please select a valid video file (MP4, MOV, AVI)"
AlertTooLarge == "File size must be less than 500MB"
AlertUploaded == "Video uploaded successfully!"
AlertUploadFailed == "Upload failed. Please try again."
ErrBadFormat == "Invalid file format. Supported: MP4, MOV, AVI, MKV, WEBM"
ErrTooLarge == "File size must be less than 500MB"
ErrUploadFailed == "Upload failed. Please try again."

InitUpOf(variant) ==
  /\ upVariant = variant
  /\ uploading = FALSE
  /\ progress = 0
  /\ upError = ""
  /\ upAlert = ""
  /\ inputFile = NoFile
  /\ upPending = NoFile
  /\ upPosts = 0
  /\ upHanded = 0

\* either component may be the one mounted
InitUp == \E variant \in {"conservative", "enhanced"} : InitUpOf(variant)

InputDisabledNever == FALSE

\* disabled={uploading}, on the file input and on its button
InputDisabled == uploading

\* handleFileSelect up to its await or its early return. The input is disabled
\* while uploading, and a change event needs a selection other than the one held.
HandleFileSelect(f) ==
  /\ ~InputDisabled
  /\ f # inputFile
  /\ inputFile' = f
  /\ IF ~TypeOk(upVariant, f.name)
     THEN /\ upError' = IF upVariant = "enhanced" THEN ErrBadFormat ELSE upError
          /\ upAlert' = IF upVariant = "conservative" THEN AlertBadType ELSE ""
          /\ UNCHANGED <<uploading, progress, upPending, upPosts>>
     ELSE IF TooLarge(f.size)
     THEN /\ upError' = IF upVariant = "enhanced" THEN ErrTooLarge ELSE upError
          /\ upAlert' = IF upVariant = "conservative" THEN AlertTooLarge ELSE ""
          /\ UNCHANGED <<uploading, progress, upPending, upPosts>>
     ELSE /\ upPosts < MaxUploads
          /\ upError' = ""
          /\ upAlert' = ""
          /\ uploading' = TRUE
          /\ progress' = 0
          /\ upPending' = f
          /\ upPosts' = upPosts + 1
  /\ UNCHANGED <<upVariant, upHanded>>
  /\ UNCHANGED NotUp

\* onUploadProgress: Math.round(loaded * 100 / total)
UploadProgress(percent) ==
  /\ upPending # NoFile
  /\ progress' = percent
  /\ upAlert' = ""
  /\ UNCHANGED <<upVariant, uploading, upError, inputFile, upPending, upPosts, upHanded>>
  /\ UNCHANGED NotUp

\* the POST resolves: onVideoUploaded(response.data), then finally
UploadResolved ==
  /\ upPending # NoFile
  /\ upHanded' = upHanded + 1
  /\ upAlert' = IF upVariant = "conservative" THEN AlertUploaded ELSE ""
  /\ uploading' = FALSE
  /\ progress' = 0
  /\ inputFile' = IF upVariant = "enhanced" THEN NoFile ELSE inputFile
  /\ upPending' = NoFile
  /\ UNCHANGED <<upVariant, upError, upPosts>>
  /\ UNCHANGED NotUp

ErrorMessageGeneric(detail) == ErrUploadFailed

\* error.response?.data?.detail || 'Upload failed. Please try again.', where
\* detail is "" when the error has no response or the response no detail
ErrorMessage(detail) == IF detail # "" THEN detail ELSE ErrUploadFailed

\* the POST rejects: catch, then finally; detail is error.response?.data?.detail
UploadRejected(detail) ==
  /\ upPending # NoFile
  /\ upError' = IF upVariant = "enhanced" THEN ErrorMessage(detail) ELSE upError
  /\ upAlert' = IF upVariant = "conservative" THEN AlertUploadFailed ELSE ""
  /\ uploading' = FALSE
  /\ progress' = 0
  /\ inputFile' = IF upVariant = "enhanced" THEN NoFile ELSE inputFile
  /\ upPending' = NoFile
  /\ UNCHANGED <<upVariant, upPosts, upHanded>>
  /\ UNCHANGED NotUp

\* the Alert's onClose of the enhanced variant
DismissUploadError ==
  /\ upError # ""
  /\ upError' = ""
  /\ upAlert' = ""
  /\ UNCHANGED <<upVariant, uploading, progress, inputFile, upPending, upPosts, upHanded>>
  /\ UNCHANGED NotUp

NextUp ==
  \/ \E f \in Files : HandleFileSelect(f)
  \/ \E p \in {50, 100} : UploadProgress(p)
  \/ UploadResolved
  \/ \E d \in {"", MsgServerDetail} : UploadRejected(d)
  \/ DismissUploadError

(***************************************************************************)
(* Claims about the upload component                                       *)
(***************************************************************************)
\* the name ends in a dot followed by the extension, compared case-insensitively
EndsInDotExt(name, ext) ==
  /\ Len(name) >= Len(ext) + 1
  /\ name[Len(name) - Len(ext)] = "."
  /\ ToLowerCase(SubSeq(name, Len(name) - Len(ext) + 1, Len(name))) = ext

\* the allow-list the claim gives each variant
ClaimedAllowList(variant) ==
  IF variant = "conservative"
  THEN {Str_mp4, Str_mov, Str_avi}
  ELSE {Str_mp4, Str_mov, Str_avi, Str_mkv, Str_webm}

\* C4 (as claimed): selecting a file whose name does not end in a dot followed by
\* an allow-listed extension, or whose size exceeds 500 MB, sends no request,
\* leaves the uploading flag false, calls onVideoUploaded not at all and shows an
\* error, in either variant.
C4_InvalidFileRejected ==
  [][(/\ inputFile' # inputFile
      /\ inputFile' # NoFile
      /\ \/ ~\E e \in ClaimedAllowList(upVariant) : EndsInDotExt(inputFile'.name, e)
         \/ inputFile'.size > 500 * 1024 * 1024)
     => /\ upPosts' = upPosts
        /\ upPending' = NoFile
        /\ uploading' = FALSE
        /\ upHanded' = upHanded
        /\ (upError' # "" \/ upAlert' # "")
    ]_vars


\* a POST /videos/upload is sent in this step
UploadSent == upPosts' # upPosts

\* C13: at most one upload request is in flight at any time: a POST
\* /videos/upload is sent only while none is pending, and the file input is
\* disabled for as long as one is.
C13_OneUploadInFlight ==
  [][ /\ UploadSent => upPending = NoFile
      /\ upPending' # NoFile => InputDisabled' ]_vars

\* C13 witness: a second upload is in flight, the first having ended
C13_Witness ==
  /\ upPosts >= 2
  /\ upPending # NoFile
  /\ uploading

UploadEnds == upPending # NoFile /\ upPending' = NoFile

\* C15 (as claimed): after an upload attempt ends, by success or by failure, the
\* uploading flag is false, the progress is 0 and the file input's value is
\* empty, in either variant.
C15_PickerReset ==
  [][ UploadEnds => (~uploading' /\ progress' = 0 /\ inputFile' = NoFile) ]_vars

(***************************************************************************)
(* ReviewInterface                                                         *)
(***************************************************************************)
\* const DECISION_TYPES = ['lbw', 'run_out', 'caught', 'other']
DECISION_TYPES == {"lbw", "run_out", "caught", "other"}

\* const OUTCOMES = ['out', 'not_out', 'no_ball', 'wide']
OUTCOMES == {"out", "not_out", "no_ball", "wide"}

\* the menu entries the reviewer picks in this model
TypeInputs == {"lbw"}
OutcomeInputs == {"out"}

\* what the reviewer types into the two number fields
TimestampInputs == {"", "12.3"}
ConfidenceInputs == {"", "0", "5"}

\* parseFloat of the typed text: timestamps in tenths of a second, confidences
\* in hundredths; nan for text that is no number
Num(n) == [nan |-> FALSE, value |-> n]
NaN == [nan |-> TRUE, value |-> 0]
ParseTenths(text) == CASE text = "12.3" -> Num(123) [] OTHER -> NaN
ParseHundredths(text) == CASE text = "0" -> Num(0) [] text = "5" -> Num(500) [] OTHER -> NaN

\* x || fallback: NaN and 0 are falsy
OrElse(x, fallback) == IF x.nan \/ x.value = 0 THEN fallback ELSE x.value

\* {type: '', outcome: '', timestamp: 0, confidence: 0.5}
BlankDecision == [type |-> "", outcome |-> "", timestamp |-> 0, confidence |-> 50]

MsgSubmitted == "Review submitted successfully!"
MsgSubmitFailed == "Failed to submit review. Please try again."

InitRev ==
  /\ decisions = <<>>
  /\ notes = ""
  /\ currentDecision = BlankDecision
  /\ revPosts = 0
  /\ revInFlight = 0
  /\ revCompleted = 0
  /\ revAlert = ""
  /\ revSent = FALSE

\* the onChange handlers of the Type and Outcome selects
SetType(t) ==
  /\ currentDecision' = [currentDecision EXCEPT !.type = t]
  /\ UNCHANGED <<decisions, notes, revPosts, revInFlight, revCompleted, revAlert, revSent>>
  /\ UNCHANGED NotRev

SetOutcome(o) ==
  /\ currentDecision' = [currentDecision EXCEPT !.outcome = o]
  /\ UNCHANGED <<decisions, notes, revPosts, revInFlight, revCompleted, revAlert, revSent>>
  /\ UNCHANGED NotRev

\* timestamp: parseFloat(e.target.value) || 0
SetTimestamp(text) ==
  /\ currentDecision' = [currentDecision EXCEPT !.timestamp = OrElse(ParseTenths(text), 0)]
  /\ UNCHANGED <<decisions, notes, revPosts, revInFlight, revCompleted, revAlert, revSent>>
  /\ UNCHANGED NotRev

\* confidence: parseFloat(e.target.value) || 0.5
SetConfidence(text) ==
  /\ currentDecision' = [currentDecision EXCEPT !.confidence = OrElse(ParseHundredths(text), 50)]
  /\ UNCHANGED <<decisions, notes, revPosts, revInFlight, revCompleted, revAlert, revSent>>
  /\ UNCHANGED NotRev

\* addDecision: appends a copy when type and outcome are chosen, then blanks the form
AddDecision ==
  /\ Len(decisions) < MaxDecisions
  /\ IF currentDecision.type # "" /\ currentDecision.outcome # ""
     THEN /\ decisions' = Append(decisions, currentDecision)
          /\ currentDecision' = BlankDecision
     ELSE UNCHANGED <<decisions, currentDecision>>
  /\ UNCHANGED <<notes, revPosts, revInFlight, revCompleted, revAlert>>
  /\ revSent' = (revSent /\ decisions' = decisions /\ notes' = notes)
  /\ UNCHANGED NotRev

\* decisions.filter((_, i) => i !== index)
Filtered(list, index) ==
  [i \in 1..(Len(list) - 1) |-> IF i < index THEN list[i] ELSE list[i + 1]]

\* removeDecision(index), from the Remove button of entry index
RemoveDecision(index) ==
  /\ index \in 1..Len(decisions)
  /\ decisions' = Filtered(decisions, index)
  /\ UNCHANGED <<notes, currentDecision, revPosts, revInFlight, revCompleted, revAlert>>
  /\ revSent' = (revSent /\ decisions' = decisions /\ notes' = notes)
  /\ UNCHANGED NotRev

\* the notes field's onChange
SetNotes(text) ==
  /\ notes' = text
  /\ UNCHANGED <<decisions, currentDecision, revPosts, revInFlight, revCompleted, revAlert>>
  /\ revSent' = (revSent /\ decisions' = decisions /\ notes' = notes)
  /\ UNCHANGED NotRev

SubmitAlways == FALSE

\* disabled={decisions.length === 0}
SubmitDisabled == Len(decisions) = 0

\* a click on Submit Review: submitReview up to its await
SubmitReview ==
  /\ ~SubmitDisabled
  /\ revPosts < MaxPosts
  /\ revPosts' = revPosts + 1
  /\ revInFlight' = revInFlight + 1
  /\ revSent' = TRUE
  /\ UNCHANGED <<decisions, notes, currentDecision, revCompleted, revAlert>>
  /\ UNCHANGED NotRev

\* POST /reviews resolves: onReviewComplete(response.data), then the alert
ReviewResolved ==
  /\ revInFlight > 0
  /\ revInFlight' = revInFlight - 1
  /\ revCompleted' = revCompleted + 1
  /\ revAlert' = MsgSubmitted
  /\ UNCHANGED <<decisions, notes, currentDecision, revPosts, revSent>>
  /\ UNCHANGED NotRev

\* POST /reviews rejects
ReviewRejected ==
  /\ revInFlight > 0
  /\ revInFlight' = revInFlight - 1
  /\ revAlert' = MsgSubmitFailed
  /\ revSent' = FALSE
  /\ UNCHANGED <<decisions, notes, currentDecision, revPosts, revCompleted>>
  /\ UNCHANGED NotRev

NextRev ==
  \/ \E t \in TypeInputs : SetType(t)
  \/ \E o \in OutcomeInputs : SetOutcome(o)
  \/ \E text \in TimestampInputs : SetTimestamp(text)
  \/ \E text \in ConfidenceInputs : SetConfidence(text)
  \/ AddDecision
  \/ \E index \in 1..MaxDecisions : RemoveDecision(index)
  \/ \E text \in {"", "close call"} : SetNotes(text)
  \/ SubmitReview
  \/ ReviewResolved
  \/ ReviewRejected

(***************************************************************************)
(* Claims about the review form                                            *)
(***************************************************************************)
\* C5: the submit control is disabled exactly when the pending list is empty,
\* and every step that sends a POST /reviews sends a list of at least one decision.
C5_SubmitNeedsDecision ==
  [][/\ SubmitDisabled <=> decisions = <<>>
     /\ revPosts' # revPosts => Len(decisions) >= 1
    ]_vars

\* C5 witness: a review was posted, and the list has since been emptied again
C5_Witness == revPosts >= 1 /\ decisions = <<>> /\ SubmitDisabled

\* C28 (as claimed): a composed review is posted at most once: while a POST
\* /reviews with the present decisions and notes is pending, and after it has
\* succeeded, a press of submit sends no second POST /reviews with them.
C28_PostedAtMostOnce ==
  [][revPosts' # revPosts => ~revSent]_vars

\* C17 (as claimed): every decision in the pending list has a type of
\* DECISION_TYPES, an outcome of OUTCOMES and a confidence within [0, 1]
\* (0 to 100 hundredths).
C17_DecisionsInRange ==
  \A i \in 1..Len(decisions) :
    /\ decisions[i].type \in DECISION_TYPES
    /\ decisions[i].outcome \in OUTCOMES
    /\ decisions[i].confidence >= 0
    /\ decisions[i].confidence <= 100

(***************************************************************************)
(* The nearest-timestamp searches of the 3-D ball marker and the 2-D       *)
(* overlay. Times are in tenths of a second; sample indexes start at 0.    *)
(***************************************************************************)
Abs(x) == IF x < 0 THEN -x ELSE x

Times == 0..MaxTime

\* arrays of at most n numbers
SeqsUpTo(n) == UNION {[1..k -> Times] : k \in 0..n}

\* a trajectory: its number of points, and its timestamps array when it has one;
\* a server may send an array of another length than the points
Trajectories ==
  [n : 0..MaxPoints, hasTimestamps : {TRUE}, timestamps : SeqsUpTo(MaxPoints + 1)]
  \cup [n : 0..MaxPoints, hasTimestamps : {FALSE}, timestamps : {<<>>}]

\* trajectoryData.timestamps || points.map((_, i) => i * 0.1)
TimestampsOf(t) ==
  IF t.hasTimestamps THEN t.timestamps ELSE [i \in 1..t.n |-> i - 1]

\* Ball useFrame: the loop from i = 1 over timestamps, keeping the first least |timestamps[i] - currentTime|
RECURSIVE BallScan(_, _, _, _, _)
BallScan(ts, time, i, targetIndex, minDiff) ==
  IF i >= Len(ts) THEN targetIndex
  ELSE LET diff == Abs(ts[i + 1] - time)
       IN IF diff < minDiff
          THEN BallScan(ts, time, i + 1, i, diff)
          ELSE BallScan(ts, time, i + 1, targetIndex, minDiff)

\* Ball useFrame: the search, then the clamp to the last point; -1 when nothing is placed.
\* An empty timestamps array makes minDiff NaN and leaves index 0.
BallIndex(t, time) ==
  IF t.n = 0 THEN -1
  ELSE LET ts == TimestampsOf(t)
           targetIndex == IF Len(ts) = 0 THEN 0 ELSE BallScan(ts, time, 1, 0, Abs(ts[1] - time))
       IN IF targetIndex >= t.n THEN t.n - 1 ELSE targetIndex

\* the same loop with <= for <: a tie goes to the later sample
RECURSIVE OverlayScanLastTie(_, _, _, _, _)
OverlayScanLastTie(ts, time, i, closestIndex, minDiff) ==
  IF i >= Len(ts) THEN closestIndex
  ELSE LET diff == Abs(ts[i + 1] - time)
       IN IF diff <= minDiff
          THEN OverlayScanLastTie(ts, time, i + 1, i, diff)
          ELSE OverlayScanLastTie(ts, time, i + 1, closestIndex, minDiff)

\* drawTracking: the loop from i = 1 over timestamps
RECURSIVE OverlayScan(_, _, _, _, _)
OverlayScan(ts, time, i, closestIndex, minDiff) ==
  IF i >= Len(ts) THEN closestIndex
  ELSE LET diff == Abs(ts[i + 1] - time)
       IN IF diff < minDiff
          THEN OverlayScan(ts, time, i + 1, i, diff)
          ELSE OverlayScan(ts, time, i + 1, closestIndex, minDiff)

\* drawTracking: the search, then the guard closestIndex < points.length;
\* -1 when nothing is drawn
OverlayIndex(t, time) ==
  IF t.n = 0 THEN -1
  ELSE LET ts == TimestampsOf(t)
           closestIndex == IF Len(ts) = 0 THEN 0 ELSE OverlayScan(ts, time, 1, 0, Abs(ts[1] - time))
       IN IF closestIndex < t.n THEN closestIndex ELSE -1

NotShown == [at |-> -1, index |-> -1]

InitViewOf(t) ==
  /\ traj = t
  /\ now = 0
  /\ ballShown = NotShown
  /\ overlayShown = NotShown

\* the record is fetched once per analysis run and never changed
InitView == \E t \in Trajectories : InitViewOf(t)

\* the orchestrator's setCurrentTime, handed down as the currentTime prop
SetCurrentTime(time) ==
  /\ now' = time
  /\ UNCHANGED <<traj, ballShown, overlayShown>>
  /\ UNCHANGED NotView

\* one render-loop frame of the 3-D ball marker
BallFrame ==
  /\ ballShown' = [at |-> now, index |-> BallIndex(traj, now)]
  /\ UNCHANGED <<traj, now, overlayShown>>
  /\ UNCHANGED NotView

\* one redraw of the 2-D overlay
DrawTracking ==
  /\ overlayShown' = [at |-> now, index |-> OverlayIndex(traj, now)]
  /\ UNCHANGED <<traj, now, ballShown>>
  /\ UNCHANGED NotView

NextView ==
  \/ \E time \in Times : SetCurrentTime(time)
  \/ BallFrame
  \/ DrawTracking

(***************************************************************************)
(* Claims about the two views                                              *)
(***************************************************************************)
\* both views have computed their sample for the same current time
SameTimeShown == ballShown.at # -1 /\ ballShown.at = overlayShown.at

frameTime == 2

Min(a, b) == IF a < b THEN a ELSE b
Max(a, b) == IF a > b THEN a ELSE b

ForwardUnclamped(t, d, frames) == t + frames * frameTime

\* Math.min(videoRef.current.duration, videoRef.current.currentTime + frames * frameTime)
Forward(t, d, frames) == Min(d, t + frames * frameTime)

\* Math.max(0, videoRef.current.currentTime - frames * frameTime)
Backward(t, frames) == Max(0, t - frames * frameTime)

\* the assignment to currentTime by a forward step: with a NaN duration
\* Math.min is NaN, the assignment throws and the time stays
AfterForward(t, d, frames) == IF d = -1 THEN t ELSE Forward(t, d, frames)

InitRunOf(dev) ==
  /\ strictDev = dev
  /\ runInstance = 0
  /\ runMounts = 0
  /\ listeners = <<>>
  /\ source = FALSE
  /\ duration = -1
  /\ videoTime = 0
  /\ keyFault = FALSE

\* the application runs as a development or as a production build
InitRun == \E dev \in BOOLEAN : InitRunOf(dev)

\* navigate to /runout: Runout mounts and its effect adds a keydown listener,
\* twice under StrictMode's mount, unmount, mount of a development build
OpenRunout ==
  /\ runInstance = 0
  /\ runMounts < MaxMounts
  /\ runMounts' = runMounts + 1
  /\ runInstance' = runMounts + 1
  /\ listeners' = IF strictDev
                  THEN listeners \o <<runMounts + 1, runMounts + 1>>
                  ELSE Append(listeners, runMounts + 1)
  /\ source' = FALSE
  /\ duration' = -1
  /\ videoTime' = 0
  /\ UNCHANGED <<strictDev, keyFault>>
  /\ UNCHANGED NotRun

\* the Footer's Go to Home: Runout unmounts; the effect returns no cleanup
LeaveRunout ==
  /\ runInstance # 0
  /\ runInstance' = 0
  /\ source' = FALSE
  /\ duration' = -1
  /\ videoTime' = 0
  /\ UNCHANGED <<strictDev, runMounts, listeners, keyFault>>
  /\ UNCHANGED NotRun

\* handleFileChange: the video element is rendered; its metadata is not loaded yet
HandleFileChange ==
  /\ runInstance # 0
  /\ ~source
  /\ source' = TRUE
  /\ duration' = -1
  /\ videoTime' = 0
  /\ UNCHANGED <<strictDev, runInstance, runMounts, listeners, keyFault>>
  /\ UNCHANGED NotRun

\* the video's metadata arrives: the duration is known
LoadedMetadata(d) ==
  /\ source
  /\ duration = -1
  /\ duration' = d
  /\ UNCHANGED <<strictDev, runInstance, runMounts, listeners, source, videoTime, keyFault>>
  /\ UNCHANGED NotRun

\* handleFrame(direction), from the four buttons shown with the video
HandleFrame(direction) ==
  /\ source
  /\ videoTime' =
       CASE direction = "forward" -> AfterForward(videoTime, duration, 1)
         [] direction = "5forward" -> AfterForward(videoTime, duration, 5)
         [] direction = "backward" -> Backward(videoTime, 1)
         [] direction = "5backward" -> Backward(videoTime, 5)
  /\ UNCHANGED <<strictDev, runInstance, runMounts, listeners, source, duration, keyFault>>
  /\ UNCHANGED NotRun

\* what one keydown listener does: its videoRef holds the video only while its
\* own instance is mounted with a file chosen; otherwise reading
\* videoRef.current.currentTime throws
ListenerHasVideo(owner) == owner = runInstance /\ source

\* the time after the listeners from position i on have each handled the key
RECURSIVE AfterKey(_, _, _)
AfterKey(key, i, t) ==
  IF i > Len(listeners) THEN t
  ELSE IF ~ListenerHasVideo(listeners[i]) THEN AfterKey(key, i + 1, t)
  ELSE IF key = "ArrowLeft" THEN AfterKey(key, i + 1, Backward(t, 1))
  ELSE AfterKey(key, i + 1, AfterForward(t, duration, 1))

\* a key press anywhere in the window: every listener runs
KeyDown(key) ==
  /\ listeners # <<>>
  /\ IF key \in {"ArrowLeft", "ArrowRight"}
     THEN /\ videoTime' = AfterKey(key, 1, videoTime)
          /\ keyFault' = \E i \in 1..Len(listeners) : ~ListenerHasVideo(listeners[i])
     ELSE UNCHANGED <<videoTime, keyFault>>
  /\ UNCHANGED <<strictDev, runInstance, runMounts, listeners, source, duration>>
  /\ UNCHANGED NotRun

NextRun ==
  \/ OpenRunout
  \/ LeaveRunout
  \/ HandleFileChange
  \/ \E d \in 0..MaxDuration : LoadedMetadata(d)
  \/ \E direction \in {"forward", "5forward", "backward", "5backward"} : HandleFrame(direction)
  \/ \E key \in {"ArrowLeft", "ArrowRight", "Enter"} : KeyDown(key)

(***************************************************************************)
(* Claims about the run-out screen                                         *)
(***************************************************************************)
\* C7: with a loaded video of duration D, after any sequence of button and
\* arrow-key steps the current time t satisfies 0 <= t <= D.
C7_TimeWithinVideo ==
  (source /\ duration # -1) => (0 <= videoTime /\ videoTime <= duration)

\* C7 witness: forward steps have run into the end of a video whose duration is
\* no whole number of frames, and were clamped to it
C7_Witness ==
  source /\ duration > frameTime /\ duration % frameTime # 0 /\ videoTime = duration

\* C24 (as claimed): while the run-out screen shows a video, each ArrowLeft or
\* ArrowRight press changes the current time by exactly one single-frame step,
\* as one press of Prev. Frame or Next Frame does, after any number of mounts and
\* unmounts: exactly one listener acts on the press.
C24_OneStepPerKey ==
  [][/\ (source /\ KeyDown("ArrowLeft")) =>
          /\ videoTime' = Backward(videoTime, 1)
          /\ Len(listeners) = 1
     /\ (source /\ KeyDown("ArrowRight")) =>
          /\ videoTime' = AfterForward(videoTime, duration, 1)
          /\ Len(listeners) = 1
    ]_vars

\* the part of C24 about the time alone, in a production build: the listeners of
\* earlier mounts run too, but they fail on their detached videoRef
OneStepPerKeyInProduction ==
  [][\A key \in {"ArrowLeft", "ArrowRight"} :
       (~strictDev /\ source /\ KeyDown(key)) =>
          videoTime' = IF key = "ArrowLeft" THEN Backward(videoTime, 1)
                       ELSE AfterForward(videoTime, duration, 1)
    ]_vars

\* C30 (as claimed): once the run-out screen has been opened, no arrow-key press
\* reads a missing video element: not before a file is chosen, not while a video
\* is loaded, and not after the screen has been left.
C30_KeyNeverFaults == ~keyFault

(***************************************************************************)
(* The offline worker                                                      *)
(***************************************************************************)
\* the list handed to cache.addAll, by three of its entries
Manifest == {"/", "/index.html", "/manifest.json"}

\* the URLs the page requests: entries of the list and one that is not
Urls == Manifest \cup {"/src/new.jsx"}

InitSw ==
  /\ swState = "none"
  /\ prefetch = "idle"
  /\ cache = {}
  /\ fetchLog = <<>>

\* navigator.serviceWorker.register: the install event is dispatched; its
\* listener opens the cache and starts cache.addAll
Register ==
  /\ swState = "none"
  /\ swState' = "installing"
  /\ prefetch' = "running"
  /\ UNCHANGED <<cache, fetchLog>>
  /\ UNCHANGED NotSw

\* the promise given to event.waitUntil settles when the cache is open: the
\* then-callback returns nothing, so cache.addAll is not waited for
InstallComplete ==
  /\ swState = "installing"
  /\ swState' = "active"
  /\ UNCHANGED <<prefetch, cache, fetchLog>>
  /\ UNCHANGED NotSw

\* cache.addAll has fetched every URL and stores them all
PrefetchDone ==
  /\ prefetch = "running"
  /\ prefetch' = "done"
  /\ cache' = cache \cup Manifest
  /\ UNCHANGED <<swState, fetchLog>>
  /\ UNCHANGED NotSw

\* one of the URLs could not be fetched: cache.addAll stores nothing
PrefetchFailed ==
  /\ prefetch = "running"
  /\ prefetch' = "failed"
  /\ UNCHANGED <<swState, cache, fetchLog>>
  /\ UNCHANGED NotSw

\* caches.match(event.request)
CacheMatch(url) == url \in cache

\* the value given to event.respondWith: the cached response on a hit; on a
\* miss the callback calls requestBackend, which is defined nowhere, so the
\* promise rejects with a ReferenceError and no request is sent
Respond(url) ==
  IF CacheMatch(url)
  THEN [url |-> url, hit |-> TRUE, outcome |-> "cached", network |-> FALSE]
  ELSE [url |-> url, hit |-> FALSE, outcome |-> "error", network |-> FALSE]

\* a fetch event of a page the worker controls
FetchEvent(url) ==
  /\ swState = "active"
  /\ Len(fetchLog) < MaxFetches
  /\ fetchLog' = Append(fetchLog, Respond(url))
  /\ UNCHANGED <<swState, prefetch, cache>>
  /\ UNCHANGED NotSw

NextSw ==
  \/ Register
  \/ InstallComplete
  \/ PrefetchDone
  \/ PrefetchFailed
  \/ \E url \in Urls : FetchEvent(url)

(***************************************************************************)
(* Claims about the offline worker                                         *)
(***************************************************************************)
\* C8: for every fetch event the worker handles, a cache hit returns the cached
\* response without a network request, and a miss is forwarded to the network
\* and the network's response is returned to the page.
C8_CacheFirstThenNetwork ==
  \A i \in 1..Len(fetchLog) :
    /\ fetchLog[i].hit => (fetchLog[i].outcome = "cached" /\ ~fetchLog[i].network)
    /\ ~fetchLog[i].hit => (fetchLog[i].outcome = "network" /\ fetchLog[i].network)

\* C25 (as claimed): when the install step has completed, the pre-fetch of the
\* manifest list has finished without failure and every URL of the list is in
\* the cache.
C25_InstallWaitsForPrefetch ==
  swState = "active" => (prefetch = "done" /\ Manifest \subseteq cache)

(***************************************************************************)
(* The database initialization script and the rows its tables hold.        *)
(* A generated UUID is modelled as the smallest identifier the table does  *)
(* not hold; NULL is 0.                                                    *)
(***************************************************************************)
Null == 0

Statement(op, name) == [op |-> op, name |-> name, email |-> ""]

\* INSERT INTO users (username, email, ...) ... ON CONFLICT (username) DO NOTHING
Seed(username, email) == [op |-> "seed", name |-> username, email |-> email]

\* the statements of the script, in order
Script ==
  << Statement("extension", "uuid-ossp"),
     Statement("extension", "pgcrypto"),
     Statement("type", "review_status"),
     Statement("type", "user_role"),
     Statement("table", "users"),
     Statement("table", "videos"),
     Statement("table", "reviews"),
     Statement("table", "trajectories"),
     Statement("table", "review_events"),
     Statement("index", "idx_videos_uploaded_by"),
     Statement("index", "idx_videos_uploaded_at"),
     Statement("index", "idx_reviews_video_id"),
     Statement("index", "idx_reviews_assigned_to"),
     Statement("index", "idx_reviews_status"),
     Statement("index", "idx_reviews_created_at"),
     Statement("index", "idx_trajectories_review_id"),
     Statement("index", "idx_trajectories_frame_number"),
     Statement("index", "idx_review_events_review_id"),
     Statement("index", "idx_review_events_created_at"),
     Statement("function", "update_updated_at_column"),
     Statement("dropTrigger", "update_users_updated_at"),
     Statement("createTrigger", "update_users_updated_at"),
     Statement("dropTrigger", "update_reviews_updated_at"),
     Statement("createTrigger", "update_reviews_updated_at"),
     Seed("admin", "admin@drs.local"),
     Seed("reviewer", "reviewer@drs.local"),
     Seed("viewer", "viewer@drs.local") >>

EmptySchema ==
  [extensions |-> {}, types |-> {}, tables |-> {}, indexes |-> {},
   functions |-> {}, triggers |-> {}]

NoRun == [valid |-> FALSE, schema |-> EmptySchema, users |-> {}]

NoOp == [op |-> "none", cascaded |-> 0]

Ids(rows) == {r.id : r \in rows}

\* uuid_generate_v4(): an identifier no row of the table has
FreshId(rows) == CHOOSE n \in 1..(Cardinality(rows) + 1) : n \notin Ids(rows)

\* an empty database: the script has not run
InitDb ==
  /\ schema = EmptySchema
  /\ users = {}
  /\ videos = {}
  /\ reviews = {}
  /\ trajectories = {}
  /\ review_events = {}
  /\ scriptPc = 0
  /\ scriptRuns = 0
  /\ scriptError = FALSE
  /\ leftByRun = NoRun
  /\ touched = FALSE
  /\ lastOp = NoOp

\* the script is started; it counts as run on the database a run left when
\* that run completed without error and no row changed since
StartRun ==
  /\ scriptPc = 0
  /\ scriptRuns < MaxRuns
  /\ scriptPc' = 1
  /\ scriptRuns' = scriptRuns + 1
  /\ scriptError' = FALSE
  /\ leftByRun' = IF leftByRun.valid /\ ~touched THEN leftByRun ELSE NoRun
  /\ UNCHANGED <<schema, touched, rowVars>>
  /\ UNCHANGED NotDb

\* the statement leaves schema sch and users rows us, or fails; psql stops at
\* the first error, and the run is over after the last statement
Executed(sch, us, failed) ==
  LET over == failed \/ scriptPc = Len(Script)
  IN /\ schema' = sch
     /\ users' = us
     /\ scriptError' = failed
     /\ scriptPc' = IF over THEN 0 ELSE scriptPc + 1
     /\ touched' = IF over THEN FALSE ELSE touched
     /\ leftByRun' = IF over
                     THEN [valid |-> ~failed, schema |-> sch, users |-> us]
                     ELSE leftByRun
     /\ UNCHANGED <<scriptRuns, videos, reviews, trajectories, review_events, lastOp>>
     /\ UNCHANGED NotDb

Current == Script[scriptPc]

Running(op) == scriptPc # 0 /\ Current.op = op

\* CREATE EXTENSION IF NOT EXISTS
CreateExtension ==
  /\ Running("extension")
  /\ Executed([schema EXCEPT !.extensions = @ \cup {Current.name}], users, FALSE)

\* DO $$ BEGIN CREATE TYPE ... EXCEPTION WHEN duplicate_object THEN null; END $$
CreateType ==
  /\ Running("type")
  /\ Executed([schema EXCEPT !.types = @ \cup {Current.name}], users, FALSE)

\* CREATE TABLE IF NOT EXISTS
CreateTable ==
  /\ Running("table")
  /\ Executed([schema EXCEPT !.tables = @ \cup {Current.name}], users, FALSE)

\* CREATE INDEX IF NOT EXISTS
CreateIndex ==
  /\ Running("index")
  /\ Executed([schema EXCEPT !.indexes = @ \cup {Current.name}], users, FALSE)

\* CREATE OR REPLACE FUNCTION
CreateFunction ==
  /\ Running("function")
  /\ Executed([schema EXCEPT !.functions = @ \cup {Current.name}], users, FALSE)

\* DROP TRIGGER IF EXISTS
DropTrigger ==
  /\ Running("dropTrigger")
  /\ Executed([schema EXCEPT !.triggers = @ \ {Current.name}], users, FALSE)

\* CREATE TRIGGER: an error when the trigger exists
CreateTrigger ==
  /\ Running("createTrigger")
  /\ IF Current.name \in schema.triggers
     THEN Executed(schema, users, TRUE)
     ELSE Executed([schema EXCEPT !.triggers = @ \cup {Current.name}], users, FALSE)

ConflictNever(username) == FALSE

\* ON CONFLICT (username): a row with this username exists
Conflict(username) == \E u \in users : u.username = username

\* email VARCHAR(255) UNIQUE
EmailTaken(email) == \E u \in users : u.email = email

\* INSERT INTO users ... ON CONFLICT (username) DO NOTHING; a unique violation
\* on username without a conflict found, or on email, is an error
InsertSeed ==
  /\ Running("seed")
  /\ IF Conflict(Current.name)
     THEN Executed(schema, users, FALSE)
     ELSE IF (\E u \in users : u.username = Current.name) \/ EmailTaken(Current.email)
     THEN Executed(schema, users, TRUE)
     ELSE Executed(schema,
                   users \cup {[id |-> FreshId(users), username |-> Current.name,
                                email |-> Current.email]},
                   FALSE)

\* ---- row statements of the application, between runs of the script ----
UserNames == {"admin", "guest"}
Emails == {"admin@drs.local", "guest@drs.local"}

HasTable(name) == scriptPc = 0 /\ name \in schema.tables

\* the statement is accepted; it is remembered when its cascade removed rows
Accepted(op, cascaded) ==
  /\ lastOp' = IF cascaded > 0 THEN [op |-> op, cascaded |-> cascaded] ELSE NoOp
  /\ touched' = TRUE
  /\ UNCHANGED <<schema, scriptPc, scriptRuns, scriptError, leftByRun>>
  /\ UNCHANGED NotDb

\* INSERT INTO users: username and email are UNIQUE
InsertUser(username, email) ==
  /\ HasTable("users")
  /\ ~(\E u \in users : u.username = username)
  /\ ~EmailTaken(email)
  /\ users' = users \cup {[id |-> FreshId(users), username |-> username, email |-> email]}
  /\ UNCHANGED <<videos, reviews, trajectories, review_events>>
  /\ Accepted("insertUser", 0)

\* a row references the user through a REFERENCES users(id) column; none of
\* these columns has an ON DELETE action, so the delete is refused
UserReferenced(id) ==
  \/ \E v \in videos : v.uploaded_by = id
  \/ \E r \in reviews : r.assigned_to = id \/ r.created_by = id
  \/ \E e \in review_events : e.user_id = id

\* DELETE FROM users WHERE id = ...
DeleteUser(id) ==
  /\ HasTable("users")
  /\ id \in Ids(users)
  /\ ~UserReferenced(id)
  /\ users' = {u \in users : u.id # id}
  /\ UNCHANGED <<videos, reviews, trajectories, review_events>>
  /\ Accepted("deleteUser", 0)

\* uploaded_by UUID REFERENCES users(id): NULL or an existing user
UserRef(id) == id = Null \/ id \in Ids(users)

\* INSERT INTO videos
InsertVideo(uploaded_by) ==
  /\ HasTable("videos")
  /\ Cardinality(videos) < MaxRows
  /\ UserRef(uploaded_by)
  /\ videos' = videos \cup {[id |-> FreshId(videos), uploaded_by |-> uploaded_by]}
  /\ UNCHANGED <<users, reviews, trajectories, review_events>>
  /\ Accepted("insertVideo", 0)

\* INSERT INTO reviews: video_id and created_by are NOT NULL
InsertReview(video_id, assigned_to, created_by) ==
  /\ HasTable("reviews")
  /\ Cardinality(reviews) < MaxRows
  /\ video_id \in Ids(videos)
  /\ UserRef(assigned_to)
  /\ created_by \in Ids(users)
  /\ reviews' = reviews \cup {[id |-> FreshId(reviews), video_id |-> video_id,
                               assigned_to |-> assigned_to, created_by |-> created_by]}
  /\ UNCHANGED <<users, videos, trajectories, review_events>>
  /\ Accepted("insertReview", 0)

\* INSERT INTO trajectories
InsertTrajectory(review_id) ==
  /\ HasTable("trajectories")
  /\ Cardinality(trajectories) < MaxRows
  /\ review_id \in Ids(reviews)
  /\ trajectories' = trajectories \cup {[id |-> FreshId(trajectories), review_id |-> review_id]}
  /\ UNCHANGED <<users, videos, reviews, review_events>>
  /\ Accepted("insertTrajectory", 0)

\* INSERT INTO review_events
InsertEvent(review_id, user_id) ==
  /\ HasTable("review_events")
  /\ Cardinality(review_events) < MaxRows
  /\ review_id \in Ids(reviews)
  /\ UserRef(user_id)
  /\ review_events' = review_events \cup {[id |-> FreshId(review_events),
                                           review_id |-> review_id, user_id |-> user_id]}
  /\ UNCHANGED <<users, videos, reviews, trajectories>>
  /\ Accepted("insertEvent", 0)

\* video_id UUID NOT NULL REFERENCES videos(id) ON DELETE CASCADE
ReviewsOfVideo(id) == {r \in reviews : r.video_id = id}

TrajectoriesOf_none(rs) == {}

\* review_id UUID NOT NULL REFERENCES reviews(id) ON DELETE CASCADE, of trajectories
TrajectoriesOf(rs) == {t \in trajectories : t.review_id \in Ids(rs)}

\* review_id UUID NOT NULL REFERENCES reviews(id) ON DELETE CASCADE, of review_events
EventsOf(rs) == {e \in review_events : e.review_id \in Ids(rs)}

\* the reviews rs are deleted, and with them their trajectories and events
DeleteReviews(rs) ==
  /\ reviews' = reviews \ rs
  /\ trajectories' = trajectories \ TrajectoriesOf(rs)
  /\ review_events' = review_events \ EventsOf(rs)

Removed(rs) == Cardinality(rs) + Cardinality(TrajectoriesOf(rs)) + Cardinality(EventsOf(rs))

\* DELETE FROM videos WHERE id = ...
DeleteVideo(id) ==
  /\ HasTable("videos")
  /\ id \in Ids(videos)
  /\ videos' = {v \in videos : v.id # id}
  /\ DeleteReviews(ReviewsOfVideo(id))
  /\ UNCHANGED users
  /\ Accepted("deleteVideo", Removed(ReviewsOfVideo(id)))

\* DELETE FROM reviews WHERE id = ...
DeleteReview(id) ==
  /\ HasTable("reviews")
  /\ id \in Ids(reviews)
  /\ DeleteReviews({r \in reviews : r.id = id})
  /\ UNCHANGED <<users, videos>>
  /\ Accepted("deleteReview", Removed({r \in reviews : r.id = id}) - 1)

\* DELETE FROM trajectories WHERE id = ...
DeleteTrajectory(id) ==
  /\ HasTable("trajectories")
  /\ id \in Ids(trajectories)
  /\ trajectories' = {t \in trajectories : t.id # id}
  /\ UNCHANGED <<users, videos, reviews, review_events>>
  /\ Accepted("deleteTrajectory", 0)

\* DELETE FROM review_events WHERE id = ...
DeleteEvent(id) ==
  /\ HasTable("review_events")
  /\ id \in Ids(review_events)
  /\ review_events' = {e \in review_events : e.id # id}
  /\ UNCHANGED <<users, videos, reviews, trajectories>>
  /\ Accepted("deleteEvent", 0)

\* what a run of the script on an empty database leaves
Bootstrapped ==
  [schema |->
     [extensions |-> {"uuid-ossp", "pgcrypto"},
      types |-> {"review_status", "user_role"},
      tables |-> {"users", "videos", "reviews", "trajectories", "review_events"},
      indexes |-> {Script[i].name : i \in {j \in 1..Len(Script) : Script[j].op = "index"}},
      functions |-> {"update_updated_at_column"},
      triggers |-> {"update_users_updated_at", "update_reviews_updated_at"}],
   users |->
     {[id |-> 1, username |-> "admin", email |-> "admin@drs.local"],
      [id |-> 2, username |-> "reviewer", email |-> "reviewer@drs.local"],
      [id |-> 3, username |-> "viewer", email |-> "viewer@drs.local"]}]

\* the identifiers a statement may name
RowIds == 1..MaxRows
UserIds == 1..(Cardinality(Bootstrapped.users) + 1)

\* the user a new row may reference: the first account
Referees == {1}

\* the script and the accounts table
NextDb ==
  \/ StartRun
  \/ CreateExtension
  \/ CreateType
  \/ CreateTable
  \/ CreateIndex
  \/ CreateFunction
  \/ DropTrigger
  \/ CreateTrigger
  \/ InsertSeed
  \/ \E username \in UserNames, email \in Emails : InsertUser(username, email)
  \/ \E id \in UserIds : DeleteUser(id)

\* the rows of a database the script has initialized: the accounts are deleted
\* but not added to, the other tables take inserts and deletes
NextRows ==
  \/ \E id \in UserIds : DeleteUser(id)
  \/ \E uploaded_by \in {Null} \cup Referees : InsertVideo(uploaded_by)
  \/ \E video_id \in RowIds, assigned_to \in {Null} \cup Referees, created_by \in Referees :
       InsertReview(video_id, assigned_to, created_by)
  \/ \E review_id \in RowIds : InsertTrajectory(review_id)
  \/ \E review_id \in RowIds, user_id \in {Null} \cup Referees : InsertEvent(review_id, user_id)
  \/ \E id \in RowIds : DeleteVideo(id)
  \/ \E id \in RowIds : DeleteReview(id)
  \/ \E id \in RowIds : DeleteTrajectory(id)
  \/ \E id \in RowIds : DeleteEvent(id)

\* the database after the container's first start: the script has run once
InitRows ==
  /\ schema = Bootstrapped.schema
  /\ users = Bootstrapped.users
  /\ videos = {}
  /\ reviews = {}
  /\ trajectories = {}
  /\ review_events = {}
  /\ scriptPc = 0
  /\ scriptRuns = 1
  /\ scriptError = FALSE
  /\ leftByRun = [valid |-> TRUE, schema |-> Bootstrapped.schema, users |-> Bootstrapped.users]
  /\ touched = FALSE
  /\ lastOp = NoOp

(***************************************************************************)
(* Claims about the database                                               *)
(***************************************************************************)
RunCompletes == scriptPc # 0 /\ scriptPc' = 0

SeededOnce(us) ==
  \A name \in {"admin", "reviewer", "viewer"} :
    Cardinality({u \in us : u.username = name}) = 1

\* C9: a run of the script on the database that a run left completes without
\* error and leaves the same types, tables, indexes, triggers and users rows,
\* with exactly one row each for admin, reviewer and viewer.
C9_BootstrapIdempotent ==
  [][ (RunCompletes /\ leftByRun.valid) =>
        /\ ~scriptError'
        /\ schema' = leftByRun.schema
        /\ users' = leftByRun.users
        /\ SeededOnce(users') ]_vars

\* C9 witness: the second run has completed on the database the first run
\* left, which is the initialized database
C9_Witness ==
  /\ scriptRuns = 2
  /\ scriptPc = 0
  /\ ~touched
  /\ leftByRun.valid
  /\ leftByRun.schema = Bootstrapped.schema
  /\ users = Bootstrapped.users

NoDangling ==
  /\ \A r \in reviews :
       r.video_id \in Ids(videos) /\ r.created_by \in Ids(users) /\ UserRef(r.assigned_to)
  /\ \A t \in trajectories : t.review_id \in Ids(reviews)
  /\ \A e \in review_events : e.review_id \in Ids(reviews) /\ UserRef(e.user_id)
  /\ \A v \in videos : UserRef(v.uploaded_by)

VideoDeleteCascades ==
  \A v \in videos :
    v.id \notin Ids(videos') =>
      \A r \in reviews :
        r.video_id = v.id =>
          /\ r \notin reviews'
          /\ \A t \in trajectories : t.review_id = r.id => t \notin trajectories'
          /\ \A e \in review_events : e.review_id = r.id => e \notin review_events'

UserDeleteKeeps ==
  (\E u \in users : u.id \notin Ids(users')) => (videos' = videos /\ reviews' = reviews)

\* C10: after any accepted inserts and deletes, deleting a video deletes its
\* reviews and their trajectory samples and review events, no row references a
\* missing parent row, and deleting a user deletes no video and no review.
C10_CascadeFromVideoOnly ==
  [][ NoDangling' /\ VideoDeleteCascades /\ UserDeleteKeeps ]_vars

\* C10 witness: a video was deleted and took a review, a trajectory sample and
\* a review event with it, while the users they referenced are still there
C10_Witness ==
  /\ lastOp.op = "deleteVideo"
  /\ lastOp.cascaded >= 3
  /\ users # {}

(***************************************************************************)
(* The operator CLI                                                        *)
(***************************************************************************)
\* the subcommands that run one docker-compose command, and its arguments
ComposeArgs ==
  [start |-> "up -d", stop |-> "down", restart |-> "restart", build |-> "build",
   rebuild |-> "build --no-cache", logs |-> "logs -f",
   logsBackend |-> "logs -f backend", logsFrontend |-> "logs -f frontend",
   logsDb |-> "logs -f db", status |-> "ps",
   dbShell |-> "exec db psql -U drs_user -d drs_db",
   backendShell |-> "exec backend sh", frontendShell |-> "exec frontend sh",
   testBackend |-> "exec backend pytest", testFrontend |-> "exec frontend npm test",
   backupDb |-> "exec db pg_dump -U drs_user drs_db",
   prod |-> "--profile production up -d", dev |-> "up -d"]

ComposeSubcommands == DOMAIN ComposeArgs

\* the subcommands that print a success line after their command
Announced == {"start", "stop", "restart", "build", "rebuild", "backupDb", "prod", "dev"}

\* help|--help|-h, and no argument: "${1:-help}"
HelpArgs == {"help", "--help", "-h", ""}

\* the arguments an operator gives: every subcommand, and one that is none
CliArgs == ComposeSubcommands \cup HelpArgs \cup {"clean", "restoreDb", "bogus"}

\* the key read -n 1 returns at the clean prompt: "" for Enter, "eof" when
\* the input is closed
Replies == {"y", "Y", "n", "N", "x", "", "eof"}

CleanArgs == "down -v --rmi all"
RestoreArgs == "exec -T db psql -U drs_user -d drs_db"

InitCli ==
  /\ cliPc = "idle"
  /\ cliArg = ""
  /\ dockerUp = TRUE
  /\ composeInstalled = TRUE
  /\ cliCmds = <<>>
  /\ cliOut = <<>>
  /\ cliReply = "none"
  /\ cliExit = -1

\* exit, or the end of the script
Exit(status, out, cmds) ==
  /\ cliPc' = "exited"
  /\ cliExit' = status
  /\ cliOut' = out
  /\ cliCmds' = cmds
  /\ UNCHANGED <<cliArg, dockerUp, composeInstalled>>

\* the operator runs the script with one argument, on a host where the
\* container engine and the orchestration tool are there or not
Invoke(arg, docker, compose) ==
  /\ cliPc \in {"idle", "exited"}
  /\ cliPc' = "checkDocker"
  /\ cliArg' = arg
  /\ dockerUp' = docker
  /\ composeInstalled' = compose
  /\ cliCmds' = <<>>
  /\ cliOut' = <<>>
  /\ cliReply' = "none"
  /\ cliExit' = -1
  /\ UNCHANGED NotCli

DockerFailsNever == FALSE

\* ! docker info >/dev/null 2>&1
DockerFails == ~dockerUp

\* ! command -v docker-compose >/dev/null 2>&1
ComposeFails == ~composeInstalled

\* check_docker
CheckDocker ==
  /\ cliPc = "checkDocker"
  /\ IF DockerFails
     THEN Exit(1, Append(cliOut, "[ERROR] Docker is not running"), cliCmds)
     ELSE /\ cliPc' = "checkCompose"
          /\ UNCHANGED <<cliArg, dockerUp, composeInstalled, cliCmds, cliOut, cliExit>>
  /\ UNCHANGED cliReply
  /\ UNCHANGED NotCli

\* check_compose
CheckCompose ==
  /\ cliPc = "checkCompose"
  /\ IF ComposeFails
     THEN Exit(1, Append(cliOut, "[ERROR] docker-compose is not installed"), cliCmds)
     ELSE /\ cliPc' = "dispatch"
          /\ UNCHANGED <<cliArg, dockerUp, composeInstalled, cliCmds, cliOut, cliExit>>
  /\ UNCHANGED cliReply
  /\ UNCHANGED NotCli

\* a subcommand that runs one docker-compose command; under set -e a failing
\* command ends the script with its status
DispatchCompose(ok) ==
  /\ cliPc = "dispatch"
  /\ cliArg \in ComposeSubcommands
  /\ IF ok
     THEN Exit(0,
               IF cliArg \in Announced
               THEN cliOut \o <<"[INFO]", "[SUCCESS]">>
               ELSE Append(cliOut, "[INFO]"),
               Append(cliCmds, ComposeArgs[cliArg]))
     ELSE Exit(1, Append(cliOut, "[INFO]"), Append(cliCmds, ComposeArgs[cliArg]))
  /\ UNCHANGED cliReply
  /\ UNCHANGED NotCli

\* help|--help|-h) usage
DispatchHelp ==
  /\ cliPc = "dispatch"
  /\ cliArg \in HelpArgs
  /\ Exit(0, Append(cliOut, "usage"), cliCmds)
  /\ UNCHANGED cliReply
  /\ UNCHANGED NotCli

\* *) print_error "Unknown command: $1"; usage; exit 1
DispatchUnknown ==
  /\ cliPc = "dispatch"
  /\ cliArg \notin ComposeSubcommands \cup HelpArgs \cup {"clean", "restoreDb"}
  /\ Exit(1, cliOut \o <<"[ERROR] Unknown command", "usage">>, cliCmds)
  /\ UNCHANGED cliReply
  /\ UNCHANGED NotCli

\* cleanup, up to its prompt
DispatchClean ==
  /\ cliPc = "dispatch"
  /\ cliArg = "clean"
  /\ cliPc' = "confirm"
  /\ cliOut' = Append(cliOut, "[WARNING]")
  /\ UNCHANGED <<cliArg, dockerUp, composeInstalled, cliCmds, cliReply, cliExit>>
  /\ UNCHANGED NotCli

ConfirmedUnlessNo(reply) == reply \notin {"n", "N"}

\* [[ $REPLY =~ ^[Yy]$ ]]
Confirmed(reply) == reply \in {"y", "Y"}

\* cleanup, from the reply on; read fails on a closed input and set -e ends
\* the script
AnswerClean(reply, ok) ==
  /\ cliPc = "confirm"
  /\ cliReply' = reply
  /\ IF reply = "eof"
     THEN Exit(1, cliOut, cliCmds)
     ELSE IF Confirmed(reply)
     THEN IF ok
          THEN Exit(0, cliOut \o <<"[INFO]", "[SUCCESS]">>, Append(cliCmds, CleanArgs))
          ELSE Exit(1, Append(cliOut, "[INFO]"), Append(cliCmds, CleanArgs))
     ELSE Exit(0, Append(cliOut, "[INFO] Cleanup cancelled."), cliCmds)
  /\ UNCHANGED NotCli

\* restore_db, up to its prompt
DispatchRestore ==
  /\ cliPc = "dispatch"
  /\ cliArg = "restoreDb"
  /\ cliPc' = "file"
  /\ cliOut' = Append(cliOut, "Available backup files:")
  /\ UNCHANGED <<cliArg, dockerUp, composeInstalled, cliCmds, cliReply, cliExit>>
  /\ UNCHANGED NotCli

\* restore_db, from the file name on
AnswerRestore(fileExists, ok) ==
  /\ cliPc = "file"
  /\ IF fileExists
     THEN IF ok
          THEN Exit(0, cliOut \o <<"[INFO]", "[SUCCESS]">>, Append(cliCmds, RestoreArgs))
          ELSE Exit(1, Append(cliOut, "[INFO]"), Append(cliCmds, RestoreArgs))
     ELSE Exit(0, Append(cliOut, "[ERROR] Backup file not found"), cliCmds)
  /\ UNCHANGED cliReply
  /\ UNCHANGED NotCli

NextCli ==
  \/ \E arg \in CliArgs, docker \in BOOLEAN, compose \in BOOLEAN : Invoke(arg, docker, compose)
  \/ CheckDocker
  \/ CheckCompose
  \/ \E ok \in BOOLEAN : DispatchCompose(ok)
  \/ DispatchHelp
  \/ DispatchUnknown
  \/ DispatchClean
  \/ \E reply \in Replies, ok \in BOOLEAN : AnswerClean(reply, ok)
  \/ DispatchRestore
  \/ \E fileExists \in BOOLEAN, ok \in BOOLEAN : AnswerRestore(fileExists, ok)

(***************************************************************************)
(* Claims about the operator CLI                                           *)
(***************************************************************************)
Dispatched == cliPc \in {"dispatch", "confirm", "file"} \/ cliCmds # <<>> \/ cliReply # "none"

ErrorOnly ==
  /\ Len(cliOut) = 1
  /\ cliOut[1] \in {"[ERROR] Docker is not running", "[ERROR] docker-compose is not installed"}

\* C11: the container-engine check and the orchestration-tool check run before
\* any subcommand, help included, is dispatched; when either fails the script
\* prints a labeled error and exits non-zero without any orchestration command.
C11_ChecksBeforeDispatch ==
  /\ (Dispatched \/ (cliPc = "exited" /\ ~ErrorOnly)) => (dockerUp /\ composeInstalled)
  /\ (cliPc = "exited" /\ ~(dockerUp /\ composeInstalled)) =>
       (cliExit = 1 /\ ErrorOnly /\ cliCmds = <<>>)

\* C11 witness: help was asked for on a host without the orchestration tool,
\* and the script has exited with the error
C11_Witness ==
  /\ cliPc = "exited"
  /\ cliArg = "help"
  /\ dockerUp
  /\ ~composeInstalled
  /\ cliExit = 1
  /\ cliOut = <<"[ERROR] docker-compose is not installed">>

Removes(cmds) == \E i \in 1..Len(cmds) : cmds[i] = CleanArgs

\* C12: clean removes containers, volumes and images only when the reply to
\* its prompt is y or Y; after any other reply, the empty one included, it
\* has run no orchestration command.
C12_CleanNeedsYes ==
  /\ Removes(cliCmds) => (cliArg = "clean" /\ cliReply \in {"y", "Y"})
  /\ (cliArg = "clean" /\ cliReply \notin {"none", "y", "Y"}) => cliCmds = <<>>

\* C12 witness: the operator pressed Enter at the prompt and the script ended
\* with the cleanup cancelled
C12_Witness ==
  /\ cliArg = "clean"
  /\ cliPc = "exited"
  /\ cliReply = ""
  /\ cliCmds = <<>>
  /\ cliExit = 0

(***************************************************************************)
(* The HTTP clients                                                        *)
(***************************************************************************)
\* localStorage.getItem('token') returns null when no token is stored
NoToken == ""
Tokens == {"t1", "t2"}

\* `Bearer ${token}`
Bearer(t) == [scheme |-> "Bearer", credentials |-> t]

\* a request without an Authorization header, and a header that is not set
NoAuthorization == [scheme |-> "", credentials |-> ""]
Unset == ""

\* the headers of an instance made by axios.create({headers: {'Content-Type':
\* 'application/json'}}), and those of the axios default export
ApiHeaders == [Authorization |-> NoAuthorization, ContentType |-> "application/json"]
AxiosHeaders == [Authorization |-> NoAuthorization, ContentType |-> Unset]

\* the request interceptor of the api instance
Interceptor(config, tok) ==
  [config EXCEPT
     !.headers.Authorization = IF tok # NoToken THEN Bearer(tok) ELSE @,
     !.headers.ContentType = IF config.data = "FormData" THEN Unset ELSE @]

\* the places that send a request: the client each one calls, and its body
CallSites ==
  [uploadEnhanced     |-> [client |-> "api",   method |-> "POST", url |-> "/videos/upload", data |-> "FormData"],
   uploadConservative |-> [client |-> "axios", method |-> "POST", url |-> "/videos/upload", data |-> "FormData"],
   track              |-> [client |-> "api",   method |-> "POST", url |-> "/videos/{id}/track", data |-> "none"],
   trajectory         |-> [client |-> "api",   method |-> "GET",  url |-> "/videos/{id}/trajectory", data |-> "none"],
   reviewTrajectory   |-> [client |-> "axios", method |-> "GET",  url |-> "/videos/{id}/trajectory", data |-> "none"],
   reviewCreate       |-> [client |-> "axios", method |-> "POST", url |-> "/reviews", data |-> "json"]]

\* the request a call site puts on the wire: only the api instance runs the interceptor
Request(site, tok) ==
  LET call == CallSites[site]
  IN  IF call.client = "api"
      THEN Interceptor([site |-> site, data |-> call.data, headers |-> ApiHeaders], tok)
      ELSE [site |-> site, data |-> call.data, headers |-> AxiosHeaders]

InitHttp ==
  /\ token = NoToken
  /\ httpLog = <<>>

\* a token is stored in, or removed from, local storage (by the sign-in pages,
\* which are outside this client)
SetToken(t) ==
  /\ token # t
  /\ token' = t
  /\ UNCHANGED httpLog
  /\ UNCHANGED NotHttp

\* a call site sends its request
Send(site) ==
  /\ Len(httpLog) < MaxRequests
  /\ httpLog' = Append(httpLog, Request(site, token))
  /\ UNCHANGED token
  /\ UNCHANGED NotHttp

NextHttp ==
  \/ \E t \in Tokens \cup {NoToken} : SetToken(t)
  \/ \E site \in DOMAIN CallSites : Send(site)

(***************************************************************************)
(* Claims about the HTTP clients                                           *)
(***************************************************************************)
\* C19 (as claimed): every request sent while a token is stored (the upload, the
\* track POST, the orchestrator's and the review form's trajectory GETs, and the
\* review POST) carries Authorization: Bearer <that token>.
C19_BearerOnEveryRequest ==
  [][\A site \in DOMAIN CallSites :
       (token # NoToken /\ Send(site)) =>
         httpLog'[Len(httpLog')].headers.Authorization = Bearer(token)
    ]_vars

\* what does hold: the requests of the api instance carry the stored token
ApiRequestsCarryToken ==
  [][\A site \in DOMAIN CallSites :
       (token # NoToken /\ CallSites[site].client = "api" /\ Send(site)) =>
         httpLog'[Len(httpLog')].headers.Authorization = Bearer(token)
    ]_vars

(***************************************************************************)
(* The video player's controls                                             *)
(***************************************************************************)
\* the player is mounted: the state's initial values, and a new video element,
\* whose playbackRate is 1
InitPlayerOf(presses) ==
  /\ playbackRate = 100
  /\ elementRate = 100
  /\ showControls = FALSE
  /\ isLoading = TRUE
  /\ isPlaying = FALSE
  /\ speedPresses = presses

InitPlayer == InitPlayerOf(0)

\* a variant of the speed control that never wraps
NextRateNoWrap(rate) == rate + 25

\* playbackRate >= 2 ? 0.5 : playbackRate + 0.25
NextRate(rate) == IF rate >= 200 THEN 50 ELSE rate + 25

\* onMouseEnter and onMouseLeave of the player's box
MouseEnter ==
  /\ ~showControls
  /\ showControls' = TRUE
  /\ UNCHANGED <<playbackRate, elementRate, isLoading, isPlaying, speedPresses>>
  /\ UNCHANGED NotPlayer

MouseLeave ==
  /\ showControls
  /\ showControls' = FALSE
  /\ UNCHANGED <<playbackRate, elementRate, isLoading, isPlaying, speedPresses>>
  /\ UNCHANGED NotPlayer

\* handleLoadedData: the loading overlay goes
HandleLoadedData ==
  /\ isLoading
  /\ isLoading' = FALSE
  /\ UNCHANGED <<playbackRate, elementRate, showControls, isPlaying, speedPresses>>
  /\ UNCHANGED NotPlayer

\* the controls are rendered only while showControls && !isLoading
ControlsShown == showControls /\ ~isLoading

\* the play/pause button, followed by the element's play or pause event
TogglePlay ==
  /\ ControlsShown
  /\ isPlaying' = ~isPlaying
  /\ UNCHANGED <<playbackRate, elementRate, showControls, isLoading, speedPresses>>
  /\ UNCHANGED NotPlayer

\* the speed control's onClick; the video element is rendered whenever the
\* controls are, so videoRef.current is set
PressSpeed ==
  /\ ControlsShown
  /\ speedPresses < MaxPresses
  /\ playbackRate' = NextRate(playbackRate)
  /\ elementRate' = NextRate(playbackRate)
  /\ speedPresses' = speedPresses + 1
  /\ UNCHANGED <<showControls, isLoading, isPlaying>>
  /\ UNCHANGED NotPlayer

\* the orchestrator unmounts the player while a new video is analysed and mounts
\* it again afterwards: state and element are new
Remount ==
  /\ ~isLoading
  /\ playbackRate' = 100
  /\ elementRate' = 100
  /\ showControls' = FALSE
  /\ isLoading' = TRUE
  /\ isPlaying' = FALSE
  /\ UNCHANGED speedPresses
  /\ UNCHANGED NotPlayer

NextPlayer ==
  \/ MouseEnter
  \/ MouseLeave
  \/ HandleLoadedData
  \/ TogglePlay
  \/ PressSpeed
  \/ Remount

(***************************************************************************)
(* Claims about the video player's controls                                *)
(***************************************************************************)
\* the rates in the order the speed control visits them, in hundredths
RateOrder == <<50, 75, 100, 125, 150, 175, 200>>

RateIndex(rate) == CHOOSE i \in 1..Len(RateOrder) : RateOrder[i] = rate

\* C20: the player starts at rate 1; the displayed rate is always one of 0.5,
\* 0.75, 1, 1.25, 1.5, 1.75 and 2; each press of the speed control moves it to
\* the next of these in that order, 2 being followed by 0.5; and the press sets
\* the video element's rate to the new displayed rate.
C20_SpeedCycle ==
  /\ [](speedPresses = 0 => playbackRate = 100)
  /\ [][/\ playbackRate \in {RateOrder[i] : i \in 1..Len(RateOrder)}
        /\ PressSpeed =>
             /\ playbackRate' = RateOrder[(RateIndex(playbackRate) % Len(RateOrder)) + 1]
             /\ elementRate' = playbackRate'
       ]_vars

\* C20 witness: the control was pressed at 2x and the player now shows, and the
\* element plays at, 0.5x
C20_Witness ==
  /\ speedPresses >= 4
  /\ playbackRate = 50
  /\ elementRate = 50
  /\ ControlsShown

(***************************************************************************)
(* The player's overlay effect. Times are in tenths of a second; sample    *)
(* indexes start at 0; timestamps are the default i * 0.1.                 *)
(***************************************************************************)
\* const predictionPoints = 20
predictionPoints == 20

\* the values of the trajectoryData prop
OverlayTrajectories ==
  [kind : {"null", "noPoints"}, n : {0}] \cup [kind : {"points"}, n : 0..MaxSamples]

OverlayTimes == 0..MaxSamples

\* the effect's guard: with the video and canvas mounted the listeners are
\* registered unless !trajectoryData || !trajectoryData.points
EffectRegisters(t) == t.kind = "points"

\* the trail loop: i from Math.max(0, closestIndex - 15) to closestIndex,
\* leaving at i >= points.length
Trail(c, n) == {i \in Max(0, c - 15)..c : i < n}

\* the prediction loop: closestIndex + i for i from 0 while i < predictionPoints
\* and closestIndex + i < points.length
Prediction(c, n) == {c + i : i \in {j \in 0..(predictionPoints - 1) : c + j < n}}

NothingDrawn == [at |-> -1, index |-> -1, trail |-> {}, prediction |-> {}]

\* drawTracking run with the closure's currentTime equal to time
DrawnAt(t, time) ==
  LET c == OverlayIndex([n |-> t.n, hasTimestamps |-> FALSE, timestamps |-> <<>>], time)
  IN  IF c = -1
      THEN [NothingDrawn EXCEPT !.at = time]
      ELSE [at |-> time, index |-> c, trail |-> Trail(c, t.n), prediction |-> Prediction(c, t.n)]

\* the player is mounted with a video and some trajectoryData
InitOverlayOf(t) ==
  /\ ovTraj = t
  /\ videoNow = 0
  /\ ovCurrentTime = 0
  /\ ovReported = -1
  /\ ovDrawn = NothingDrawn

InitOverlay == \E t \in OverlayTrajectories : InitOverlayOf(t)

\* the video element emits timeupdate at time T. With the listener registered,
\* handleTimeUpdate runs: setCurrentTime(newTime), onTimeUpdate(newTime), then
\* drawTracking(), which reads the currentTime of the render that registered
\* the listener; the re-render that follows registers it anew and draws nothing
TimeUpdate(T) ==
  /\ videoNow' = T
  /\ IF EffectRegisters(ovTraj)
     THEN /\ ovCurrentTime' = T
          /\ ovReported' = T
          /\ ovDrawn' = DrawnAt(ovTraj, ovCurrentTime)
     ELSE UNCHANGED <<ovCurrentTime, ovReported, ovDrawn>>
  /\ UNCHANGED ovTraj
  /\ UNCHANGED NotOverlay

NextOverlay == \E T \in OverlayTimes : TimeUpdate(T)

(***************************************************************************)
(* Claims about the player's overlay effect                                *)
(***************************************************************************)
\* C21 (as claimed): on every time-update of the mounted video the component
\* calls onTimeUpdate with the video's current time, whether trajectoryData has
\* points, has none, or is null.
C21_TimeAlwaysReported ==
  [][\A T \in OverlayTimes : TimeUpdate(T) => ovReported' = T]_vars

\* what holds of C21: the time is reported when trajectoryData has a points array
TimeReportedWithPoints ==
  [][\A T \in OverlayTimes :
       (ovTraj.kind = "points" /\ TimeUpdate(T)) => ovReported' = T]_vars

\* C23 (as claimed): on each time-update at video time T the overlay draws, in
\* that event, the sample nearest to T, the time reported to the parent in
\* that event.
C23_DrawsNearestToReported ==
  [][\A T \in OverlayTimes :
       (ovTraj.kind = "points" /\ ovTraj.n >= 1 /\ TimeUpdate(T)) =>
         /\ ovReported' = T
         /\ ovDrawn'.index = DrawnAt(ovTraj, T).index
    ]_vars

\* C26 (as claimed): with N points and nearest index c, the trail covers samples
\* max(0, c - 15) to c, the predicted path runs from sample c to sample
\* min(c + 20, N - 1), and no index outside 0..N-1 is read.
C26_TrailAndPrediction ==
  ovDrawn.index # -1 =>
    LET c == ovDrawn.index
        N == ovTraj.n
    IN  /\ ovDrawn.trail = Max(0, c - 15)..c
        /\ ovDrawn.prediction = c..Min(c + 20, N - 1)
        /\ (ovDrawn.trail \cup ovDrawn.prediction) \subseteq 0..(N - 1)

\* what holds of C26: the trail, the bounds of every read, and a predicted path
\* of at most predictionPoints samples counting sample c
TrailAndPredictionAsDrawn ==
  ovDrawn.index # -1 =>
    LET c == ovDrawn.index
        N == ovTraj.n
    IN  /\ ovDrawn.trail = Max(0, c - 15)..c
        /\ ovDrawn.prediction = c..Min(c + predictionPoints - 1, N - 1)
        /\ (ovDrawn.trail \cup ovDrawn.prediction) \subseteq 0..(N - 1)

(***************************************************************************)
(* TrajectoryViewer: the render of the rich and of the simple variant.     *)
(* A trajectory is given by the times t of its points; indexes start at 0. *)
(***************************************************************************)
\* the values of the trajectoryData prop: null, an object without a points
\* array, and objects with 0 to MaxPoints + 1 points
ViewerData ==
  [kind : {"null", "noPoints"}, t : {<<>>}] \cup [kind : {"points"}, t : SeqsUpTo(MaxPoints + 1)]

\* a variant of the guard without its length test
ShowsPlaceholderUnlessEmpty(data) == data.kind = "null" \/ data.kind = "noPoints"

\* !trajectoryData || !trajectoryData.points || trajectoryData.points.length === 0
ShowsPlaceholder(data) ==
  data.kind = "null" \/ data.kind = "noPoints" \/ Len(data.t) = 0

\* points.find(point => point.t >= currentTime) || points[points.length - 1]:
\* the indexes read, up to the first match, else all and then the last
FindReads(t, time) ==
  LET hits == {i \in 0..(Len(t) - 1) : t[i + 1] >= time}
  IN  IF hits = {}
      THEN 0..(Len(t) - 1) \cup {Len(t) - 1}
      ELSE 0..(CHOOSE i \in hits : \A j \in hits : i <= j)

\* the render: the placeholder, or the scene after reading the impact point
\* points[points.length - 1] (rich) or the current point (simple)
RenderOf(variant, data, time) ==
  IF ShowsPlaceholder(data)
  THEN [view |-> "placeholder", reads |-> {}]
  ELSE IF variant = "rich"
       THEN [view |-> "scene", reads |-> {Len(data.t) - 1}]
       ELSE [view |-> "scene", reads |-> FindReads(data.t, time)]

InitViewer ==
  /\ vwVariant = "rich"
  /\ vwData = [kind |-> "null", t |-> <<>>]
  /\ vwTime = 0
  /\ vwOut = RenderOf("rich", [kind |-> "null", t |-> <<>>], 0)

\* a parent renders one of the viewers with its props
Render(variant, data, time) ==
  /\ vwVariant' = variant
  /\ vwData' = data
  /\ vwTime' = time
  /\ vwOut' = RenderOf(variant, data, time)
  /\ UNCHANGED NotViewer

NextViewer ==
  \E variant \in {"rich", "simple"}, data \in ViewerData, time \in Times :
    Render(variant, data, time)

(***************************************************************************)
(* Claims about TrajectoryViewer                                           *)
(***************************************************************************)
\* C22: for trajectory data that is null, has no points array or has zero
\* points, the rich and the simple viewer return their placeholder and read no
\* point; and whenever a viewer reads points, every index read is one of the
\* points the data has.
C22_PlaceholderWithoutPoints ==
  /\ (vwData.kind \in {"null", "noPoints"} \/ Len(vwData.t) = 0) =>
       (vwOut.view = "placeholder" /\ vwOut.reads = {})
  /\ vwOut.reads \subseteq 0..(Len(vwData.t) - 1)

\* C22 witness: the simple viewer has rendered its placeholder for data with an
\* empty points array
C22_Witness ==
  /\ vwVariant = "simple"
  /\ vwData.kind = "points" /\ Len(vwData.t) = 0
  /\ vwOut.view = "placeholder"

(***************************************************************************)
(* Specifications: one per component, over the same initial state          *)
(***************************************************************************)
NoTrajectory == [n |-> 0, hasTimestamps |-> FALSE, timestamps |-> <<>>]

\* every component but the one under study starts in one fixed state
RestApp == InitApp
RestUp == InitUpOf("enhanced")
RestRev == InitRev
RestView == InitViewOf(NoTrajectory)
RestRun == InitRunOf(FALSE)
RestSw == InitSw
RestDb == InitDb
RestCli == InitCli
RestHttp == InitHttp
RestPlayer == InitPlayer
RestOverlay == InitOverlayOf([kind |-> "null", n |-> 0])
RestViewer == InitViewer

InitAppSpec == InitApp /\ RestUp /\ RestRev /\ RestView /\ RestRun /\ RestSw /\ RestDb /\ RestCli /\ RestHttp /\ RestPlayer /\ RestOverlay /\ RestViewer
InitUpSpec == RestApp /\ InitUp /\ RestRev /\ RestView /\ RestRun /\ RestSw /\ RestDb /\ RestCli /\ RestHttp /\ RestPlayer /\ RestOverlay /\ RestViewer
InitRevSpec == RestApp /\ RestUp /\ InitRev /\ RestView /\ RestRun /\ RestSw /\ RestDb /\ RestCli /\ RestHttp /\ RestPlayer /\ RestOverlay /\ RestViewer
InitViewSpec == RestApp /\ RestUp /\ RestRev /\ InitView /\ RestRun /\ RestSw /\ RestDb /\ RestCli /\ RestHttp /\ RestPlayer /\ RestOverlay /\ RestViewer
InitRunSpec == RestApp /\ RestUp /\ RestRev /\ RestView /\ InitRun /\ RestSw /\ RestDb /\ RestCli /\ RestHttp /\ RestPlayer /\ RestOverlay /\ RestViewer
InitSwSpec == RestApp /\ RestUp /\ RestRev /\ RestView /\ RestRun /\ InitSw /\ RestDb /\ RestCli /\ RestHttp /\ RestPlayer /\ RestOverlay /\ RestViewer
InitDbSpec == RestApp /\ RestUp /\ RestRev /\ RestView /\ RestRun /\ RestSw /\ InitDb /\ RestCli /\ RestHttp /\ RestPlayer /\ RestOverlay /\ RestViewer
InitRowsSpec == RestApp /\ RestUp /\ RestRev /\ RestView /\ RestRun /\ RestSw /\ InitRows /\ RestCli /\ RestHttp /\ RestPlayer /\ RestOverlay /\ RestViewer
InitCliSpec == RestApp /\ RestUp /\ RestRev /\ RestView /\ RestRun /\ RestSw /\ RestDb /\ InitCli /\ RestHttp /\ RestPlayer /\ RestOverlay /\ RestViewer
InitHttpSpec == RestApp /\ RestUp /\ RestRev /\ RestView /\ RestRun /\ RestSw /\ RestDb /\ RestCli /\ InitHttp /\ RestPlayer /\ RestOverlay /\ RestViewer
InitPlayerSpec == RestApp /\ RestUp /\ RestRev /\ RestView /\ RestRun /\ RestSw /\ RestDb /\ RestCli /\ RestHttp /\ InitPlayer /\ RestOverlay /\ RestViewer
InitOverlaySpec == RestApp /\ RestUp /\ RestRev /\ RestView /\ RestRun /\ RestSw /\ RestDb /\ RestCli /\ RestHttp /\ RestPlayer /\ InitOverlay /\ RestViewer
InitViewerSpec == RestApp /\ RestUp /\ RestRev /\ RestView /\ RestRun /\ RestSw /\ RestDb /\ RestCli /\ RestHttp /\ RestPlayer /\ RestOverlay /\ InitViewer

SpecApp == InitAppSpec /\ [][NextApp]_vars
SpecUp == InitUpSpec /\ [][NextUp]_vars
SpecRev == InitRevSpec /\ [][NextRev]_vars
SpecView == InitViewSpec /\ [][NextView]_vars
SpecRun == InitRunSpec /\ [][NextRun]_vars
SpecSw == InitSwSpec /\ [][NextSw]_vars
SpecDb == InitDbSpec /\ [][NextDb]_vars
SpecRows == InitRowsSpec /\ [][NextRows]_vars
SpecCli == InitCliSpec /\ [][NextCli]_vars
SpecHttp == InitHttpSpec /\ [][NextHttp]_vars
SpecPlayer == InitPlayerSpec /\ [][NextPlayer]_vars
SpecOverlay == InitOverlaySpec /\ [][NextOverlay]_vars
SpecViewer == InitViewerSpec /\ [][NextViewer]_vars

====
